---- MODULE Spec2Model ----
(***************************************************************************)
(* Position mint orchestrator (useMintPosition) together with the hooks it *)
(* builds on (useBalanceChecks, wagmi's useSendCalls / useCallsStatus) and *)
(* the sequential-fallback wrapper useSendCalls of the web app.            *)
(***************************************************************************)
EXTENDS Integers, Sequences, FiniteSets, TLC

\* Most execute() calls made in one behaviour (each owns one pipeline slot).
MaxExecutes == 2

\* Longest call list handed to the wrapper's sendCalls.
MaxCalls == 3

\* Longest token list handed to searchTokens.
MaxTokens == 3

\* Most addToSearchHistory / addToRecentlySelected calls made in one behaviour.
MaxAdds == 4

\* Capacity of the stored query history and of the recently-selected list
\* (20 and 10 in the code, scaled down so that the lists overflow).
MaxPolls == 3            \* fetches of the status queries of one useCallsStatus

MaxHashes == 2           \* longest transactionHashes parameter

MaxSelectorTokens == 2   \* longest tokens / balances prop of the token selector

MAX_HISTORY_ITEMS == 2
MAX_RECENTLY_SELECTED == 2

\* ------------------------------------------------------------------------
\* Values

NoToken == "none"
ZeroAddress == "0x0"
TokenAChoices == {NoToken, ZeroAddress, "0xA"}
TokenBChoices == {NoToken, ZeroAddress, "0xB"}

\* Amount inputs: "" is the empty field, "2x" a string Number.parseFloat reads
\* as 2 and parseUnits rejects, "0.01" an amount below one unit of a token
\* with fewer than two decimals.
AmountAChoices == {"", "2x", "2", "0.01"}
AmountBChoices == {"", "2"}

NoError == "<null>"
\* data of the send mutation: <<>> is undefined, <<n>> the n-th batch id
NoId == <<>>
NoStatus == "<undefined>"

Statuses ==
    {"idle", "checking-balance", "preparing", "checking-allowance",
     "executing", "confirming", "success", "error"}

\* Token.decimals of the tokens of the model.
TokenDecimals(addr) ==
    CASE addr = ZeroAddress -> 2
      [] addr = "0xA" -> 1
      [] OTHER -> 0

RECURSIVE Pow10(_)
Pow10(d) == IF d = 0 THEN 1 ELSE 10 * Pow10(d - 1)

\* The decimal strings of the model as mantissa / 10^scale.
Mantissa(s) == IF s = "2" THEN 2 ELSE IF s = "0.01" THEN 1 ELSE 0
Scale(s) == IF s = "0.01" THEN 2 ELSE 0

\* viem parseUnits: rejects a string that is no decimal number, reads "" as
\* 0, and rounds (half up) a fraction longer than the token's decimals.
CanParseUnits(s) == s \in {"", "2", "0.01"}

ParseUnits(s, d) ==
    IF Scale(s) <= d
    THEN Mantissa(s) * Pow10(d - Scale(s))
    ELSE (2 * Mantissa(s) + Pow10(Scale(s) - d)) \div (2 * Pow10(Scale(s) - d))

\* Number.parseFloat(s) > 0, as the backend's input schema demands
\* (z.number().positive()).
ParseFloatPositive(s) == s \in {"2x", "2", "0.01"}

\* !!s of a string
Truthy(s) == s # ""

\* ------------------------------------------------------------------------
\* State

VARIABLES
    tokenA, tokenB, amountA, amountB, owner,   \* the hook's parameters
    balances, balancesLoading,                 \* useBalanceChecks result
    status, error,                             \* useState of the hook
    pipes,                                     \* the execute() calls
    walletReq, callsId, callsStatus, nextId,   \* wagmi useSendCalls/useCallsStatus
    atomicSupported,                           \* wallet capability (EIP-5792)
    \* useSendCalls wrapper (sequential fallback)
    account, enable5792,                       \* useAccount().address is set, hook option
    sendPc, nCalls, transactionHashes, receipts, \* the sendCalls() call in progress
    sendFailed,                                \* a sendTransactionAsync of the call threw
    result, isPending, isSuccess, isError, sendError,
    \* EnhancedSearchEngine
    searchArgs, searchOut,                     \* a searchTokens call and its result
    filterArgs, filterOut,                     \* an applyAdvancedFilters call and its results
    searchHistory, recentlySelected, now,      \* localStorage entries, Date.now()
    lastAdd,                                   \* the last addTo... call made
    \* TokenSelectorV2
    selectorProps, rendered,                   \* props and state; allTokens and filteredTokens
    \* TokenFormatAdapter
    rawRecord, adapted,                        \* a source record and the adapter's Token
    \* useCallsStatus wrapper
    statusParams,                              \* the hook's parameters
    wagmiStatus, sequentialReceipts,           \* the data of the status queries
    polled                                     \* the last fetch made and what was known then

sendVars ==
    <<account, enable5792, sendPc, nCalls, transactionHashes, receipts,
      sendFailed, result, isPending, isSuccess, isError, sendError>>

mintVars ==
    <<tokenA, tokenB, amountA, amountB, owner, balances, balancesLoading,
      status, error, pipes, walletReq, callsId, callsStatus, nextId,
      atomicSupported>>

compVars ==
    <<selectorProps, rendered, rawRecord, adapted, statusParams, wagmiStatus,
      sequentialReceipts, polled>>

libVars ==
    <<searchArgs, searchOut, filterArgs, filterOut, searchHistory, recentlySelected, now,
      lastAdd, compVars>>

vars == <<mintVars, sendVars, libVars>>

\* ------------------------------------------------------------------------
\* useMintPosition: derived values

\* tokensForBalanceCheck (useMemo)
tokensForBalanceCheck ==
    IF tokenA = NoToken \/ tokenB = NoToken \/ ~Truthy(amountA) \/ ~Truthy(amountB)
    THEN <<>>
    ELSE IF ~CanParseUnits(amountA) \/ ~CanParseUnits(amountB)
    THEN <<>>
    ELSE << [address |-> tokenA, decimals |-> TokenDecimals(tokenA),
             requiredAmount |-> ParseUnits(amountA, TokenDecimals(tokenA))],
            [address |-> tokenB, decimals |-> TokenDecimals(tokenB),
             requiredAmount |-> ParseUnits(amountB, TokenDecimals(tokenB))] >>

\* enabled flag of the balance query
BalanceQueryEnabled == owner /\ Len(tokensForBalanceCheck) > 0

IsNative(t) == t.address = ZeroAddress
IsErc20(t) == t.address # ZeroAddress

\* What one balance read (getBalance / balanceOf) can answer for a token
\* whose required amount is req: an amount, or an exception.
BalanceReads(req) ==
    {[threw |-> TRUE, value |-> 0]} \cup
    {[threw |-> FALSE, value |-> b] : b \in {v \in {req - 1, req} : v >= 0}}

\* One element of nativeBalancePromises / erc20BalancePromises: a read that
\* throws is reported as balance 0, insufficient.
BalanceInfoOf(t, r) ==
    [address |-> t.address, decimals |-> t.decimals,
     balance |-> IF r.threw THEN 0 ELSE r.value,
     requiredAmount |-> t.requiredAmount,
     hasSufficientBalance |-> IF r.threw THEN FALSE ELSE r.value >= t.requiredAmount]

\* queryFn of useBalanceChecks: native tokens first, then ERC-20 tokens;
\* read[i] is the answer of the read for tokens[i].
FetchBalances(tokens, read) ==
    LET infos == [i \in 1..Len(tokens) |-> BalanceInfoOf(tokens[i], read[i])]
    IN  SelectSeq(infos, IsNative) \o SelectSeq(infos, IsErc20)

\* Mutant: `every` where the code has `some`.
HasShortfall_every(bals) ==
    Len(bals) > 0 /\ \A i \in 1..Len(bals) : ~bals[i].hasSufficientBalance

\* balances.some((b) => !b.hasSufficientBalance)
HasShortfall(bals) == \E i \in 1..Len(bals) : ~bals[i].hasSufficientBalance

\* getTokenSymbol
getTokenSymbol(address) ==
    CASE address = ZeroAddress -> "ETH"
      [] address = "0xA" -> "AAA"
      [] address = "0xB" -> "BBB"
      [] OTHER -> "Token"

NoBalanceError == [kind |-> "null", shortage |-> 0, decimals |-> 0, symbols |-> <<>>]

\* balanceError (useMemo): the shortage is kept raw, with the decimals it is
\* formatted by.
balanceError ==
    LET insufficient == SelectSeq(balances, LAMBDA b : ~b.hasSufficientBalance)
    IN  IF balancesLoading \/ tokenA = NoToken \/ tokenB = NoToken \/ Len(balances) = 0
        THEN NoBalanceError
        ELSE IF Len(insufficient) = 0 THEN NoBalanceError
        ELSE IF Len(insufficient) = 1
        THEN [kind |-> "need",
              shortage |-> insufficient[1].requiredAmount - insufficient[1].balance,
              decimals |-> insufficient[1].decimals,
              symbols |-> <<getTokenSymbol(insufficient[1].address)>>]
        ELSE [kind |-> "insufficient", shortage |-> 0, decimals |-> 0,
              symbols |-> [i \in 1..Len(insufficient) |->
                              getTokenSymbol(insufficient[i].address)]]

\* The d-digit, zero-padded decimal writing of r; the same without its
\* trailing zeros.
RECURSIVE PadDigits(_, _)
PadDigits(r, d) == IF d = 0 THEN "" ELSE PadDigits(r \div 10, d - 1) \o ToString(r % 10)

RECURSIVE FractionDigits(_, _)
FractionDigits(r, d) ==
    IF d = 0 \/ r = 0 THEN ""
    ELSE IF r % 10 = 0 THEN FractionDigits(r \div 10, d - 1)
    ELSE PadDigits(r, d)

\* Mutant: the raw amount is printed unscaled.
FormatUnits_raw(value, decimals) == ToString(value)

\* viem formatUnits: the integer part, then "." and the fraction without its
\* trailing zeros when there is one.
FormatUnits(value, decimals) ==
    LET integer == ToString(value \div Pow10(decimals))
        fraction == FractionDigits(value % Pow10(decimals), decimals)
    IN  IF fraction = "" THEN integer ELSE integer \o "." \o fraction

\* symbols.join(" and ")
RECURSIVE JoinAnd(_)
JoinAnd(symbols) ==
    IF Len(symbols) = 0 THEN ""
    ELSE IF Len(symbols) = 1 THEN symbols[1]
    ELSE symbols[1] \o " and " \o JoinAnd(Tail(symbols))

\* The string (or null) balanceError evaluates to.
balanceErrorText ==
    CASE balanceError.kind = "null" -> NoError
      [] balanceError.kind = "need" ->
            "Need " \o FormatUnits(balanceError.shortage, balanceError.decimals)
                \o " more " \o balanceError.symbols[1]
      [] OTHER -> "Insufficient " \o JoinAnd(balanceError.symbols) \o " balance"

\* Mutant: isReady without the status test.
isReady_anyStatus ==
    /\ tokenA # NoToken
    /\ tokenB # NoToken
    /\ Truthy(amountA)
    /\ Truthy(amountB)
    /\ owner
    /\ balanceError.kind = "null"
    /\ ~balancesLoading

\* isReady (useMemo)
isReady ==
    /\ tokenA # NoToken
    /\ tokenB # NoToken
    /\ Truthy(amountA)
    /\ Truthy(amountB)
    /\ owner
    /\ balanceError.kind = "null"
    /\ ~balancesLoading
    /\ status = "idle"

\* isExecuting (useMemo)
isExecuting ==
    status \in {"checking-balance", "preparing", "checking-allowance",
                "executing", "confirming"}

\* ------------------------------------------------------------------------
\* execute(): one record per call

EmptyPipe ==
    [pc |-> "unused", router |-> "-", approvals |-> <<>>, reads |-> <<>>,
     calls |-> <<>>, end |-> "none", reply |-> "-"]

\* A call that has returned: its locals are gone, `end` tells how it ended
\* (and `reply`, for a failed preparation, what the backend's message was).
DonePipe(how) == [EmptyPipe EXCEPT !.pc = "done", !.end = how]

\* The call is past its last line (returned, or its catch block ran).
Finished(p) == pipes[p].pc = "done"
Started(p) == pipes[p].pc # "unused"
InFlight(p) == Started(p) /\ ~Finished(p)

\* The continuation after `await sendCalls(...)` runs as a microtask, before
\* any other task of the event loop.
MicrotaskPending == \E p \in 1..MaxExecutes : pipes[p].pc = "afterSend"

\* What the preparation backend (uniswap.mintPosition) can answer; "throw" is
\* an error raised by the tRPC client: a transport failure, or the input
\* schema rejecting an amount that is not a positive number.
BackendResults ==
    { [kind |-> "ok", message |-> "Position mint transaction prepared successfully",
       to |-> "0xPM"],
      [kind |-> "noTx", message |-> "Pool state fetched successfully", to |-> "-"],
      [kind |-> "fail", message |-> "Unsupported chain ID", to |-> "-"],
      [kind |-> "throw", message |-> "fetch failed", to |-> "-"] }

BackendAnswers ==
    IF ParseFloatPositive(amountA) /\ ParseFloatPositive(amountB)
    THEN BackendResults
    ELSE {r \in BackendResults : r.kind = "throw"}

\* Values a failing await can throw: an Error, or something that is no Error.
Throwables ==
    { [isError |-> TRUE, message |-> "fetch failed"],
      [isError |-> FALSE, message |-> "-"] }

\* err instanceof Error ? err.message : "Transaction failed"
CaughtMessage(e) == IF e.isError THEN e.message ELSE "Transaction failed"

\* Mutant: the backend's message is dropped.
PrepareFailureMessage_default(r) == "Failed to prepare transaction"

\* result.message || "Failed to prepare transaction"
PrepareFailureMessage(r) ==
    IF Truthy(r.message) THEN r.message ELSE "Failed to prepare transaction"

\* !result.success || !result.transactionData
PrepareFailed(r) == r.kind \in {"fail", "noTx"}

\* tokensToCheck, erc20Tokens of execute()
tokensToCheck ==
    << [address |-> tokenA, amount |-> ParseUnits(amountA, TokenDecimals(tokenA))],
       [address |-> tokenB, amount |-> ParseUnits(amountB, TokenDecimals(tokenB))] >>

erc20Tokens == SelectSeq(tokensToCheck, IsErc20)

ApproveCall(token, router) ==
    [to |-> token.address, fn |-> "approve", spender |-> router, amount |-> token.amount]

MintCall(router) == [to |-> router, fn |-> "mint", spender |-> "-", amount |-> 0]

\* What one allowance read (readContract "allowance") can answer: an amount,
\* or an exception.
AllowanceResults(token) ==
    {[threw |-> TRUE, allowance |-> 0]} \cup
    {[threw |-> FALSE, allowance |-> a] :
        a \in {v \in {token.amount - 1, token.amount} : v >= 0}}

\* Every answer an allowance read can give for some token and amount of the
\* model.
AllowanceAnswers ==
    UNION { AllowanceResults([address |-> t, amount |-> ParseUnits(s, TokenDecimals(t))]) :
                t \in (TokenAChoices \cup TokenBChoices) \ {NoToken},
                s \in {a \in AmountAChoices \cup AmountBChoices : CanParseUnits(a)} }

\* Mutant: fail-open, a read that throws adds no approval.
ApprovalStepsFor_failOpen(res, token, router) ==
    IF res.threw
    THEN <<>>
    ELSE IF res.allowance < token.amount
    THEN <<ApproveCall(token, router)>>
    ELSE <<>>

\* Mutant: `<=` where the code has `<`.
ApprovalStepsFor_lte(res, token, router) ==
    IF res.threw
    THEN <<ApproveCall(token, router)>>
    ELSE IF res.allowance <= token.amount
    THEN <<ApproveCall(token, router)>>
    ELSE <<>>

\* The body of the for loop over erc20Tokens: the approval steps one read adds.
ApprovalStepsFor(res, token, router) ==
    IF res.threw
    THEN <<ApproveCall(token, router)>>
    ELSE IF res.allowance < token.amount
    THEN <<ApproveCall(token, router)>>
    ELSE <<>>

\* Mutant: the mint transaction is pushed first.
BuildCalls_mintFirst(approvals, router) == <<MintCall(router)>> \o approvals

\* calls: the approval steps, then the mint transaction
BuildCalls(approvals, router) == approvals \o <<MintCall(router)>>

\* ------------------------------------------------------------------------
\* Initial state: a mounted hook; the balance query, when enabled, is fetching.

\* The wrapper hook, mounted and idle.
SendIdle ==
    /\ sendPc = "idle"
    /\ nCalls = 0
    /\ transactionHashes = <<>>
    /\ receipts = <<>>
    /\ sendFailed = FALSE
    /\ result = <<>>
    /\ isPending = FALSE
    /\ isSuccess = FALSE
    /\ isError = FALSE
    /\ sendError = NoError

\* No addToSearchHistory / addToRecentlySelected call was made yet. The
\* record of the calls keeps the queries and the token identities of the
\* calls that stored their list, the latest first.
NoAdd == [op |-> "none", query |-> "-", token |-> <<>>, stored |-> FALSE, n |-> 0,
          usedQueries |-> <<>>, usedIds |-> <<>>]

\* No token selector is mounted.
SelectorIdle ==
    /\ selectorProps = <<>>
    /\ rendered = <<>>

\* No adapter call was made.
AdapterIdle ==
    /\ rawRecord = <<>>
    /\ adapted = <<>>

\* No useCallsStatus wrapper is mounted.
StatusIdle ==
    /\ statusParams = <<>>
    /\ wagmiStatus = <<>>
    /\ sequentialReceipts = <<>>
    /\ polled = <<>>

\* The search engine before any call, with empty storage.
EngineIdle ==
    /\ searchArgs = <<>>
    /\ searchOut = <<>>
    /\ filterArgs = <<>>
    /\ filterOut = <<>>
    /\ searchHistory = <<>>
    /\ recentlySelected = <<>>
    /\ now = 0
    /\ lastAdd = NoAdd

\* Only the mint hook (or the wrapper hook) is in use.
LibIdle ==
    /\ SelectorIdle
    /\ AdapterIdle
    /\ StatusIdle
    /\ EngineIdle

Init ==
    /\ account = TRUE
    /\ enable5792 = TRUE
    /\ SendIdle
    /\ LibIdle
    /\ tokenA \in TokenAChoices
    /\ tokenB \in TokenBChoices
    /\ amountA \in AmountAChoices
    /\ amountB \in AmountBChoices
    /\ owner \in BOOLEAN
    /\ balances = <<>>
    /\ balancesLoading = BalanceQueryEnabled
    /\ status = "idle"
    /\ error = NoError
    /\ pipes = [p \in 1..MaxExecutes |-> EmptyPipe]
    /\ walletReq = <<>>
    /\ callsId = NoId
    /\ callsStatus = NoStatus
    /\ nextId = 1
    /\ atomicSupported \in BOOLEAN

inputVars == <<tokenA, tokenB, amountA, amountB, owner, atomicSupported>>
balanceVars == <<balances, balancesLoading>>
wagmiVars == <<walletReq, callsId, callsStatus, nextId>>

\* ------------------------------------------------------------------------
\* useBalanceChecks: the query resolves (first fetch or a refetch)

BalancesResolve ==
    /\ ~MicrotaskPending
    /\ BalanceQueryEnabled
    /\ \E ra \in BalanceReads(tokensForBalanceCheck[1].requiredAmount),
          rb \in BalanceReads(tokensForBalanceCheck[2].requiredAmount) :
          balances' = FetchBalances(tokensForBalanceCheck, <<ra, rb>>)
    /\ balancesLoading' = FALSE
    /\ UNCHANGED <<libVars, sendVars, inputVars, status, error, pipes, wagmiVars>>

\* ------------------------------------------------------------------------
\* execute()

\* wagmi's sendCalls is the mutation's fire-and-forget `mutate`: it hands the
\* request to the wallet, clears the mutation's data and returns undefined.
WagmiSendCalls(calls) ==
    /\ walletReq' = calls
    /\ callsId' = NoId
    /\ callsStatus' = NoStatus
    /\ UNCHANGED nextId

\* Steps 5 and 6 of execute(), up to the await of sendCalls.
Submit(p, approvals, reads) ==
    /\ status' = "executing"
    /\ pipes' = [pipes EXCEPT ![p].pc = "afterSend",
                              ![p].approvals = approvals,
                              ![p].reads = reads,
                              ![p].calls = BuildCalls(approvals, pipes[p].router)]
    /\ WagmiSendCalls(BuildCalls(approvals, pipes[p].router))
    /\ UNCHANGED error

\* Mutant: the catch block sets the error and starts the call over.
Catch_retry(p, e) ==
    /\ error' = CaughtMessage(e)
    /\ status' = "error"
    /\ pipes' = [pipes EXCEPT ![p] = [DonePipe("caught") EXCEPT !.pc = "prepare"]]

\* The catch block of execute().
Catch(p, e) ==
    /\ error' = CaughtMessage(e)
    /\ status' = "error"
    /\ pipes' = [pipes EXCEPT ![p] = DonePipe("caught")]

NextSlot(p) ==
    /\ pipes[p].pc = "unused"
    /\ \A q \in 1..MaxExecutes : q < p => pipes[q].pc # "unused"

\* execute() up to its first await (or its return).
ExecuteStart(p) ==
    /\ ~MicrotaskPending
    /\ NextSlot(p)
    /\ IF tokenA = NoToken \/ tokenB = NoToken \/ ~owner
       THEN /\ error' = "Missing required parameters"
            /\ status' = "error"
            /\ pipes' = [pipes EXCEPT ![p] = DonePipe("missing")]
       ELSE IF HasShortfall(balances)
       THEN /\ status' = "idle"
            /\ error' = NoError
            /\ pipes' = [pipes EXCEPT ![p] = DonePipe("short")]
       ELSE /\ status' = "preparing"
            /\ error' = NoError
            /\ pipes' = [pipes EXCEPT ![p].pc = "prepare"]
    /\ UNCHANGED <<libVars, sendVars, inputVars, balanceVars, wagmiVars>>

\* trpcClient.uniswap.mintPosition.mutate settles with r.
PrepareReturn(p, r) ==
    /\ ~MicrotaskPending
    /\ pipes[p].pc = "prepare"
    /\ r \in BackendAnswers
    /\ IF r.kind = "throw"
       THEN Catch(p, [isError |-> TRUE, message |-> r.message])
       ELSE IF PrepareFailed(r)
       THEN /\ error' = PrepareFailureMessage(r)
            /\ status' = "error"
            /\ pipes' = [pipes EXCEPT ![p] = [DonePipe("prepFailed") EXCEPT !.reply = r.message]]
       ELSE /\ status' = "checking-allowance"
            /\ pipes' = [pipes EXCEPT ![p].pc = "import", ![p].router = r.to]
            /\ UNCHANGED error
    /\ UNCHANGED <<libVars, sendVars, inputVars, balanceVars, wagmiVars>>

\* The dynamic imports fail to load.
ImportFails(p, e) ==
    /\ ~MicrotaskPending
    /\ pipes[p].pc = "import"
    /\ Catch(p, e)
    /\ UNCHANGED <<libVars, sendVars, inputVars, balanceVars, wagmiVars>>

\* The dynamic imports load: the client is created, the amounts are parsed
\* and the first allowance read is issued (or, with no ERC-20 token, the
\* calls are built and sent).
ImportReturn(p) ==
    /\ ~MicrotaskPending
    /\ pipes[p].pc = "import"
    /\ IF ~CanParseUnits(amountA) \/ ~CanParseUnits(amountB)
       THEN /\ Catch(p, [isError |-> TRUE, message |-> "invalid decimal number"])
            /\ UNCHANGED wagmiVars
       ELSE IF Len(erc20Tokens) = 0
       THEN Submit(p, <<>>, <<>>)
       ELSE /\ pipes' = [pipes EXCEPT ![p].pc = "allowance"]
            /\ UNCHANGED <<status, error, wagmiVars>>
    /\ UNCHANGED <<libVars, sendVars, inputVars, balanceVars>>

\* The allowance read of the next ERC-20 token settles with res.
AllowanceReturn(p, res) ==
    /\ ~MicrotaskPending
    /\ pipes[p].pc = "allowance"
    /\ LET i == Len(pipes[p].reads) + 1
           token == erc20Tokens[i]
           approvals == pipes[p].approvals \o ApprovalStepsFor(res, token, pipes[p].router)
           reads == Append(pipes[p].reads, res)
       IN  /\ res \in AllowanceResults(token)
           /\ IF i = Len(erc20Tokens)
              THEN Submit(p, approvals, reads)
              ELSE /\ pipes' = [pipes EXCEPT ![p].approvals = approvals,
                                             ![p].reads = reads]
                   /\ UNCHANGED <<status, error, wagmiVars>>
    /\ UNCHANGED <<libVars, sendVars, inputVars, balanceVars>>

\* `await sendCalls(...)` resumes: setStatus("confirming").
AfterSend(p) ==
    /\ pipes[p].pc = "afterSend"
    /\ status' = "confirming"
    /\ pipes' = [pipes EXCEPT ![p] = DonePipe("confirming")]
    /\ UNCHANGED <<libVars, sendVars, inputVars, balanceVars, error, wagmiVars>>

\* Mutant: a reset that also drops the submitted batch and the calls in flight.
Reset_cancelling ==
    /\ ~MicrotaskPending
    /\ status' = "idle"
    /\ error' = NoError
    /\ callsId' = NoId
    /\ callsStatus' = NoStatus
    /\ pipes' = [p \in 1..MaxExecutes |->
                    IF InFlight(p) THEN DonePipe("cancelled") ELSE pipes[p]]
    /\ UNCHANGED <<libVars, sendVars, inputVars, balanceVars, walletReq, nextId>>

\* reset()
Reset ==
    /\ ~MicrotaskPending
    /\ status' = "idle"
    /\ error' = NoError
    /\ UNCHANGED <<libVars, sendVars, inputVars, balanceVars, pipes, wagmiVars>>

\* ------------------------------------------------------------------------
\* wagmi: the wallet answers the pending wallet_sendCalls request

\* The wallet accepts the batch: the mutation's data becomes the batch id.
WalletAccepts ==
    /\ ~MicrotaskPending
    /\ walletReq # <<>>
    /\ atomicSupported
    /\ nextId <= MaxExecutes
    /\ callsId' = <<nextId>>
    /\ nextId' = nextId + 1
    /\ walletReq' = <<>>
    /\ UNCHANGED <<libVars, sendVars, inputVars, balanceVars, status, error, pipes, callsStatus>>

\* The wallet rejects the request (no EIP-5792 support, or the user declines):
\* the error stays in the mutation, which the hook does not read.
WalletRejects ==
    /\ ~MicrotaskPending
    /\ walletReq # <<>>
    /\ walletReq' = <<>>
    /\ UNCHANGED <<libVars, sendVars, inputVars, balanceVars, status, error, pipes, callsId,
                   callsStatus, nextId>>

\* The effect on [callsStatus].
MonitorEffect(txStatus) ==
    IF txStatus = "success"
    THEN /\ status' = "success"
         /\ UNCHANGED error
    ELSE IF txStatus = "failure"
    THEN /\ error' = "Transaction failed"
         /\ status' = "error"
    ELSE UNCHANGED <<status, error>>

\* A status poll of the current batch answers s; the hook re-renders and the
\* monitoring effect runs.
PollStatus(s) ==
    /\ ~MicrotaskPending
    /\ callsId # NoId
    /\ callsStatus \notin {"success", "failure"}
    /\ s # callsStatus
    /\ callsStatus' = s
    /\ MonitorEffect(s)
    /\ UNCHANGED <<libVars, sendVars, inputVars, balanceVars, pipes, walletReq, callsId, nextId>>

Next ==
    \/ BalancesResolve
    \/ \E p \in 1..MaxExecutes : ExecuteStart(p)
    \/ \E p \in 1..MaxExecutes, r \in BackendResults : PrepareReturn(p, r)
    \/ \E p \in 1..MaxExecutes, e \in Throwables : ImportFails(p, e)
    \/ \E p \in 1..MaxExecutes : ImportReturn(p)
    \/ \E p \in 1..MaxExecutes, res \in AllowanceAnswers : AllowanceReturn(p, res)
    \/ \E p \in 1..MaxExecutes : AfterSend(p)
    \/ Reset
    \/ WalletAccepts
    \/ WalletRejects
    \/ \E s \in {"pending", "success", "failure"} : PollStatus(s)

Spec == Init /\ [][Next]_vars

\* ------------------------------------------------------------------------
\* useSendCalls wrapper: sendCalls(), executeBatchMode, executeSequentialMode.
\* nCalls is the length of params.calls; the hash of the i-th transaction is i.

\* useBatchMode (useMemo)
useBatchMode == enable5792

\* The catch and finally blocks of sendCalls: the call rejects with e.
SendCallsCatch(e) ==
    /\ isError' = TRUE
    /\ sendError' = CaughtMessage(e)
    /\ isPending' = FALSE
    /\ sendPc' = "rejected"
    /\ UNCHANGED <<result, isSuccess>>

\* setResult, setIsSuccess and the finally block: the call resolves with r.
SendCallsReturn(r) ==
    /\ result' = <<r>>
    /\ isSuccess' = TRUE
    /\ isPending' = FALSE
    /\ sendPc' = "resolved"
    /\ UNCHANGED <<isError, sendError>>

\* sendCalls(params) up to its first await.
SendCallsStart(n) ==
    /\ sendPc \in {"idle", "resolved", "rejected"}
    /\ nCalls' = n
    /\ transactionHashes' = <<>>
    /\ receipts' = <<>>
    /\ sendFailed' = FALSE
    /\ IF ~account \/ n = 0
       THEN \* thrown before the try block: no state is set
            /\ sendPc' = "rejected"
            /\ UNCHANGED <<result, isPending, isSuccess, isError, sendError>>
       ELSE /\ isPending' = TRUE
            /\ isError' = FALSE
            /\ isSuccess' = FALSE
            /\ sendError' = NoError
            /\ sendPc' = IF useBatchMode THEN "batchWait" ELSE "sendTx"
            /\ UNCHANGED result
    /\ UNCHANGED <<libVars, mintVars, account, enable5792>>

\* executeBatchMode after its 100 ms wait: wagmiSendCalls.data holds an id,
\* or is still undefined.
BatchWaitReturn(hasData) ==
    /\ sendPc = "batchWait"
    /\ IF hasData
       THEN /\ atomicSupported
            /\ SendCallsReturn([id |-> "batch", mode |-> "batch", transactionHashes |-> <<>>])
       ELSE SendCallsCatch([isError |-> TRUE, message |-> "No batch ID returned"])
    /\ UNCHANGED <<libVars, mintVars, account, enable5792, nCalls, transactionHashes, receipts, sendFailed>>

\* sendTransactionAsync of the next call settles: a hash, or an exception.
SendTransactionReturn(sent) ==
    /\ sendPc = "sendTx"
    /\ IF sent
       THEN /\ transactionHashes' = Append(transactionHashes, Len(transactionHashes) + 1)
            /\ sendPc' = "waitReceipt"
            /\ UNCHANGED <<sendFailed, result, isPending, isSuccess, isError, sendError>>
       ELSE /\ SendCallsCatch([isError |-> TRUE, message |-> "User rejected the request"])
            /\ sendFailed' = TRUE
            /\ UNCHANGED transactionHashes
    /\ UNCHANGED <<libVars, mintVars, account, enable5792, nCalls, receipts>>

\* Mutant: the receipt's status is not looked at.
IsReverted_never(r) == FALSE

\* Which receipt status makes the loop throw.
IsReverted(r) == r = "reverted"

\* waitForTransactionReceipt of the last sent transaction settles with a
\* receipt ("success" or "reverted"), or throws ("threw").
ReceiptReturn(r) ==
    /\ sendPc = "waitReceipt"
    /\ receipts' = Append(receipts, r)
    /\ IF r = "threw"
       THEN SendCallsCatch([isError |-> TRUE, message |-> "receipt wait failed"])
       ELSE IF IsReverted(r)
       THEN SendCallsCatch([isError |-> TRUE, message |-> "Transaction reverted"])
       ELSE IF Len(transactionHashes) < nCalls
       THEN /\ sendPc' = "sendTx"
            /\ UNCHANGED <<result, isPending, isSuccess, isError, sendError>>
       ELSE SendCallsReturn([id |-> "hash1", mode |-> "sequential",
                             transactionHashes |-> transactionHashes])
    /\ UNCHANGED <<libVars, mintVars, account, enable5792, nCalls, transactionHashes, sendFailed>>

\* The wrapper's reset()
SendReset ==
    /\ sendPc \in {"idle", "resolved", "rejected"}
    /\ result' = <<>>
    /\ isPending' = FALSE
    /\ isSuccess' = FALSE
    /\ isError' = FALSE
    /\ sendError' = NoError
    /\ UNCHANGED <<libVars, mintVars, account, enable5792, sendPc, nCalls, transactionHashes, receipts,
                   sendFailed>>

InitSend ==
    /\ account \in BOOLEAN
    /\ enable5792 \in BOOLEAN
    /\ SendIdle
    /\ LibIdle
    /\ tokenA = NoToken
    /\ tokenB = NoToken
    /\ amountA = ""
    /\ amountB = ""
    /\ owner = FALSE
    /\ balances = <<>>
    /\ balancesLoading = FALSE
    /\ status = "idle"
    /\ error = NoError
    /\ pipes = [p \in 1..MaxExecutes |-> EmptyPipe]
    /\ walletReq = <<>>
    /\ callsId = NoId
    /\ callsStatus = NoStatus
    /\ nextId = 1
    /\ atomicSupported \in BOOLEAN

NextSend ==
    \/ \E n \in 0..MaxCalls : SendCallsStart(n)
    \/ \E hasData \in BOOLEAN : BatchWaitReturn(hasData)
    \/ \E sent \in BOOLEAN : SendTransactionReturn(sent)
    \/ \E r \in {"success", "reverted", "threw"} : ReceiptReturn(r)
    \/ SendReset

SpecSend == InitSend /\ [][NextSend]_vars

\* ------------------------------------------------------------------------
\* Properties

Pipes == 1..MaxExecutes

\* The step is the start of execute() call p.
ExecuteCalled(p) == pipes[p].pc = "unused" /\ pipes'[p].pc # "unused"

\* Some fetched balance is below its required raw amount.
AnyBalanceBelowRequired ==
    \E i \in 1..Len(balances) : balances[i].balance < balances[i].requiredAmount

\* C1: when execute() is called while some fetched balance is below its
\* required amount, the call ends at once with
\* status "idle" and without having invoked the preparation backend (it
\* never enters the "prepare" step).
C1_ShortfallAbortsToIdle ==
    [][\A p \in Pipes :
          (ExecuteCalled(p) /\ AnyBalanceBelowRequired)
          => (status' = "idle" /\ pipes'[p].pc = "done" /\ pipes'[p].end = "short")]_vars

C1_Witness ==
    \E p \in Pipes : pipes[p].end = "short" /\ status = "idle" /\ AnyBalanceBelowRequired

\* The approve call for the full required amount of an ERC-20 token.
FullApprove(token, router) ==
    [to |-> token.address, fn |-> "approve", spender |-> router, amount |-> token.amount]

InSeq(x, seq) == \E k \in 1..Len(seq) : seq[k] = x

\* The step is call p taking the answer of its next allowance read.
AllowanceStep(p) ==
    /\ pipes[p].pc = "allowance"
    /\ pipes'[p].pc \in {"allowance", "afterSend"}
    /\ Len(pipes'[p].reads) = Len(pipes[p].reads) + 1

\* An allowance read that answers zero.
ZeroRead == [threw |-> FALSE, allowance |-> 0]

\* C3 (amended): when an allowance read throws, the call goes on (it is not
\* ended, no error is set, status stays or advances to "executing") and an approve call for the token's
\* full required amount is added to the approval steps, which is what a read
\* of zero adds whenever the required amount is positive; when it was the
\* last read, that approve call is in the list handed to sendCalls.
C3_ThrowingReadAddsApproval ==
    [][\A p \in Pipes :
          (pipes[p].pc = "allowance" /\ pipes'[p] # pipes[p])
          => /\ AllowanceStep(p)
             /\ LET i == Len(pipes'[p].reads)
                    want == FullApprove(erc20Tokens[i], pipes[p].router)
                IN  pipes'[p].reads[i].threw
                    => /\ error' = error
                       /\ status' = IF pipes'[p].pc = "afterSend" THEN "executing" ELSE status
                       /\ pipes'[p].approvals = Append(pipes[p].approvals, want)
                       /\ erc20Tokens[i].amount > 0
                          => pipes'[p].approvals =
                                pipes[p].approvals \o
                                ApprovalStepsFor(ZeroRead, erc20Tokens[i], pipes[p].router)
                       /\ pipes'[p].pc = "afterSend"
                          => (InSeq(want, pipes'[p].calls) /\ walletReq' = pipes'[p].calls)]_vars

\* C3 as stated: a throwing read adds exactly what a read of zero adds, for
\* every required amount.
C3_ThrowingReadAsZeroRead ==
    [][\A p \in Pipes :
          (AllowanceStep(p) /\ pipes'[p].reads[Len(pipes'[p].reads)].threw)
          => pipes'[p].approvals =
                pipes[p].approvals \o
                ApprovalStepsFor(ZeroRead, erc20Tokens[Len(pipes'[p].reads)], pipes[p].router)]_vars

C3_Witness ==
    \E p \in Pipes :
        /\ pipes[p].pc = "afterSend"
        /\ \E i \in 1..Len(pipes[p].reads) : pipes[p].reads[i].threw
        /\ Len(pipes[p].calls) >= 2

\* Every allowance read of call p answered an amount of at least the
\* required one.
AllAllowancesSufficient(p) ==
    /\ Len(pipes[p].reads) = Len(erc20Tokens)
    /\ \A i \in 1..Len(pipes[p].reads) :
          /\ ~pipes[p].reads[i].threw
          /\ pipes[p].reads[i].allowance >= erc20Tokens[i].amount

\* C4: a call that has reached the submission with every allowance read
\* answering at least the required amount hands sendCalls exactly the single
\* mint call.
C4_NoApprovalWhenSufficient ==
    \A p \in Pipes :
        (pipes[p].pc = "afterSend" /\ AllAllowancesSufficient(p))
        => /\ pipes[p].calls = <<[to |-> pipes[p].router, fn |-> "mint",
                                  spender |-> "-", amount |-> 0]>>
           /\ walletReq = pipes[p].calls

C4_Witness ==
    \E p \in Pipes :
        /\ pipes[p].pc = "afterSend"
        /\ Len(pipes[p].reads) = 2
        /\ AllAllowancesSufficient(p)

\* The approve calls the allowance reads of call p ask for: one per read that
\* threw or answered less than the required amount, in the order of the reads.
RECURSIVE NeededApprovals(_, _)
NeededApprovals(p, n) ==
    IF n = 0 THEN <<>>
    ELSE LET r == pipes[p].reads[n]
         IN  IF r.threw \/ r.allowance < erc20Tokens[n].amount
             THEN Append(NeededApprovals(p, n - 1),
                         FullApprove(erc20Tokens[n], pipes[p].router))
             ELSE NeededApprovals(p, n - 1)

\* C5: the list handed to sendCalls is the collected approve calls followed
\* by exactly one mint call, the last element; two tokens that both need an
\* approval give 3 calls.
C5_ApprovalsThenMint ==
    \A p \in Pipes :
        pipes[p].pc = "afterSend"
        => LET cs == pipes[p].calls
               n == Len(cs)
               needed == NeededApprovals(p, Len(pipes[p].reads))
           IN  /\ walletReq = cs
               /\ n = Len(needed) + 1
               /\ cs[n].fn = "mint" /\ cs[n].to = pipes[p].router
               /\ \A k \in 1..(n - 1) : cs[k] = needed[k]
               /\ Len(needed) = 2 => n = 3

C5_Witness ==
    \E p \in Pipes :
        /\ pipes[p].pc = "afterSend"
        /\ Len(pipes[p].calls) = 3
        /\ pipes[p].calls[1].fn = "approve"
        /\ pipes[p].calls[2].fn = "approve"

\* C8: when the backend reports failure, the call ends in that step with
\* status "error" and error equal to the backend's message, having issued no
\* allowance read and handed nothing to sendCalls.
C8_PrepareFailureEndsInError ==
    [][\A p \in Pipes :
          (pipes[p].pc = "prepare" /\ pipes'[p].end = "prepFailed")
          => /\ status' = "error"
             /\ error' = pipes'[p].reply
             /\ pipes'[p].pc = "done"
             /\ pipes[p].reads = <<>> /\ pipes[p].calls = <<>>
             /\ walletReq' = walletReq /\ callsId' = callsId]_vars

C8_Witness ==
    \E p \in Pipes :
        /\ pipes[p].end = "prepFailed"
        /\ status = "error"
        /\ error = "Unsupported chain ID"

\* C10: isReady implies that both tokens, both amounts and the owner are set,
\* that no fetched balance is short (balanceError is null) and that status is
\* "idle"; so isReady is false in every other status.
C10_IsReadyOnlyWhenIdleAndFunded ==
    isReady
    => /\ tokenA # NoToken /\ tokenB # NoToken
       /\ amountA # "" /\ amountB # ""
       /\ owner
       /\ balanceError.kind = "null"
       /\ ~AnyBalanceBelowRequired
       /\ status = "idle"

C10_Witness == isReady /\ Len(balances) = 2 /\ \E p \in Pipes : pipes[p].pc = "done"

\* The place of a status in the order of the state machine.
Rank(st) ==
    CASE st = "idle" -> 0
      [] st = "checking-balance" -> 1
      [] st = "preparing" -> 2
      [] st = "checking-allowance" -> 3
      [] st = "executing" -> 4
      [] st = "confirming" -> 5
      [] OTHER -> 6

Terminal(st) == st \in {"success", "error"}

\* C2: a step that changes status is reset(), or an abort to "error", or the
\* balance-shortfall abort of a call started from a non-terminal status, or a
\* move from a non-terminal status to a later one.
C2_StatusOnlyAdvances ==
    [][status' # status
       => \/ Reset
          \/ status' = "error"
          \/ /\ ~Terminal(status)
             /\ status' = "idle"
             /\ \E p \in Pipes : ExecuteCalled(p) /\ pipes'[p].end = "short"
          \/ /\ ~Terminal(status)
             /\ Rank(status') > Rank(status)]_vars

\* C6: in sequential mode a transaction is sent only when every earlier one
\* has a "success" receipt; once a receipt is reverted or missing, or a send
\* fails, sendCalls has rejected and nothing was sent after the failure.
C6_SequentialStopsAtFailure ==
    /\ \A k \in 2..Len(transactionHashes) :
          Len(receipts) >= k - 1 /\ receipts[k - 1] = "success"
    /\ \A k \in 1..Len(receipts) :
          receipts[k] # "success"
          => (sendPc = "rejected" /\ Len(transactionHashes) = k)
    /\ sendFailed
          => (sendPc = "rejected" /\ Len(transactionHashes) = Len(receipts)
                /\ Len(transactionHashes) < nCalls)
    /\ sendPc = "resolved" /\ ~useBatchMode
          => (Len(transactionHashes) = nCalls /\ Len(receipts) = nCalls)

C6_Witness ==
    /\ nCalls = 3
    /\ Len(transactionHashes) = 2
    /\ receipts = <<"success", "reverted">>
    /\ sendPc = "rejected"

\* C7 as stated: once a mint attempt has handed its calls to a wallet without
\* atomic multi-call support and the wallet has answered, the calls have been
\* sent one by one through the sequential path.
C7_FallsBackToSequential ==
    \A p \in Pipes :
        (pipes[p].end = "confirming" /\ ~atomicSupported /\ walletReq = <<>>)
        => Len(transactionHashes) > 0

\* The step is the wallet refusing the pending request.
SubmissionFails == walletReq # <<>> /\ walletReq' = <<>> /\ callsId' = NoId

\* C9 as stated: an exception of the preparation call or of the allowance-check
\* set-up ends the call with status "error" and an error message, and so does
\* a failure of the submission.
C9_EveryFailureEndsInError ==
    [][/\ \A p \in Pipes :
             (pipes[p].end # "caught" /\ pipes'[p].end = "caught")
             => (status' = "error" /\ error' # NoError)
       /\ SubmissionFails => (status' = "error" /\ error' # NoError)]_vars

\* The step brings status back to "idle", or clears the error, without being
\* the start of an execute() call: it is a reset().
ResetStep ==
    /\ status' = "idle" /\ error' = NoError
    /\ status # "idle" \/ error # NoError
    /\ \A p \in Pipes : ~ExecuteCalled(p)

\* C11: reset() sets status to "idle" and error to null and changes nothing
\* else: the execute() calls in flight, the balance query, the request
\* pending at the wallet, the batch id and its polled status stay as they were.
C11_ResetOnlyClearsStatusAndError ==
    [][ResetStep
       => /\ pipes' = pipes
          /\ balances' = balances /\ balancesLoading' = balancesLoading
          /\ walletReq' = walletReq
          /\ callsId' = callsId /\ callsStatus' = callsStatus /\ nextId' = nextId
          /\ UNCHANGED <<inputVars, sendVars, libVars>>]_vars

\* A reset happened after a batch was submitted and while it is still polled.
C11_Witness ==
    /\ status = "idle"
    /\ callsId # NoId /\ callsStatus = "pending"
    /\ \E p \in Pipes : pipes[p].end = "confirming"
    /\ \A p \in Pipes : pipes[p].pc \in {"unused", "done"} /\ pipes[p].end \in {"none", "confirming"}

\* The fetched balances reported as not sufficient.
ShortBalances == SelectSeq(balances, LAMBDA b : ~b.hasSufficientBalance)

\* A raw amount of the model written in token units.
InTokenUnits(raw, decimals) ==
    CASE raw = 0 -> "0"
      [] raw = 1 /\ decimals = 0 -> "1"
      [] raw = 1 /\ decimals = 1 -> "0.1"
      [] raw = 1 /\ decimals = 2 -> "0.01"
      [] raw = 2 /\ decimals = 0 -> "2"
      [] raw = 20 /\ decimals = 1 -> "2"
      [] raw = 200 /\ decimals = 2 -> "2"
      [] OTHER -> "?"

\* C12: with exactly one fetched balance short, balanceError is "Need X more
\* SYMBOL", X being required minus balance written in token units; with two
\* short it is "Insufficient S1 and S2 balance"; with none short it is null.
C12_BalanceErrorText ==
    /\ Len(ShortBalances) = 0 => balanceErrorText = NoError
    /\ Len(ShortBalances) = 1 =>
          LET b == ShortBalances[1]
          IN  balanceErrorText =
                "Need " \o InTokenUnits(b.requiredAmount - b.balance, b.decimals)
                    \o " more " \o getTokenSymbol(b.address)
    /\ Len(ShortBalances) = 2 =>
          balanceErrorText =
            "Insufficient " \o getTokenSymbol(ShortBalances[1].address) \o " and "
                \o getTokenSymbol(ShortBalances[2].address) \o " balance"

\* Required 2.00 and balance 1.99 at 2 decimals: one hundredth is missing.
C12_Witness ==
    /\ Len(ShortBalances) = 1
    /\ ShortBalances[1].requiredAmount = 200 /\ ShortBalances[1].balance = 199
    /\ balanceErrorText = "Need 0.01 more ETH"

\* ------------------------------------------------------------------------
\* EnhancedSearchEngine.searchTokens
\* Strings are sequences of characters; scores are kept as integers, the
\* score 1.0 being ScoreOne.

ScoreOne == 30000

\* String.prototype.toLowerCase on the characters of the model
LowerChar(c) ==
    CASE c = "A" -> "a"
      [] c = "B" -> "b"
      [] OTHER -> c

toLowerCase(str) == [i \in 1..Len(str) |-> LowerChar(str[i])]

\* !query.trim()
IsBlank(query) == \A i \in 1..Len(query) : query[i] = " "

startsWith(field, query) ==
    Len(query) <= Len(field) /\ SubSeq(field, 1, Len(query)) = query

includes(field, query) ==
    \E i \in 0..(Len(field) - Len(query)) : SubSeq(field, i + 1, i + Len(query)) = query

\* The loop of calculateFuzzyScore: the number of query characters found in
\* order in text, from query index queryIndex on.
RECURSIVE FuzzyMatches(_, _, _)
FuzzyMatches(text, query, queryIndex) ==
    IF Len(text) = 0 THEN 0
    ELSE IF queryIndex <= Len(query) /\ Head(text) = query[queryIndex]
    THEN 1 + FuzzyMatches(Tail(text), query, queryIndex + 1)
    ELSE FuzzyMatches(Tail(text), query, queryIndex)

\* calculateFuzzyScore, as the pair <<matches, query.length>> of the ratio
calculateFuzzyScore(text, query) ==
    IF Len(query) = 0 THEN <<1, 1>>
    ELSE IF Len(text) = 0 THEN <<0, 1>>
    ELSE <<FuzzyMatches(text, query, 1), Len(query)>>

\* Mutant: an equal field scores like a prefix.
calculateFieldScore_noExact(field, query, enableFuzzy) ==
    LET fieldLower == toLowerCase(field)
        fuzzy == calculateFuzzyScore(fieldLower, query)
    IN  IF startsWith(fieldLower, query) THEN 2700
        ELSE IF includes(fieldLower, query) THEN 2100
        ELSE IF enableFuzzy /\ 10 * fuzzy[1] > 6 * fuzzy[2]
        THEN (1500 * fuzzy[1]) \div fuzzy[2]
        ELSE 0

\* calculateFieldScore, in tenths of ScoreOne times the weight unit:
\* 1.0 is 3000, 0.9 is 2700, 0.7 is 2100, fuzzy * 0.5 is 1500 * matches / length.
calculateFieldScore(field, query, enableFuzzy) ==
    LET fieldLower == toLowerCase(field)
        fuzzy == calculateFuzzyScore(fieldLower, query)
    IN  IF fieldLower = query THEN 3000
        ELSE IF startsWith(fieldLower, query) THEN 2700
        ELSE IF includes(fieldLower, query) THEN 2100
        ELSE IF enableFuzzy /\ 10 * fuzzy[1] > 6 * fuzzy[2]
        THEN (1500 * fuzzy[1]) \div fuzzy[2]
        ELSE 0

Max(a, b) == IF a >= b THEN a ELSE b
Min(a, b) == IF a <= b THEN a ELSE b

\* The tag loop of searchTokens: maxScore and matchedFields after the tags.
RECURSIVE TagLoop(_, _, _, _)
TagLoop(tags, queryLower, enableFuzzy, acc) ==
    IF Len(tags) = 0 THEN acc
    ELSE LET tagScore == calculateFieldScore(Head(tags), queryLower, enableFuzzy)
         IN  TagLoop(Tail(tags), queryLower, enableFuzzy,
                     IF tagScore > 0
                     THEN [maxScore |-> Max(acc.maxScore, tagScore * 7),
                           matchedFields |-> Append(acc.matchedFields, "tags")]
                     ELSE acc)

\* One pass of the token loop of searchTokens: maxScore, matchedFields and
\* exactMatch of a token (scores in units of 1 / ScoreOne).
ScoreToken(token, queryLower, enableFuzzy) ==
    LET symbolScore == calculateFieldScore(token.symbol, queryLower, enableFuzzy)
        nameScore == calculateFieldScore(token.name, queryLower, enableFuzzy)
        addressScore == calculateFieldScore(token.address, queryLower, FALSE)
        chainScore == IF Len(token.chainName) > 0
                      THEN calculateFieldScore(token.chainName, queryLower, enableFuzzy)
                      ELSE 0
        afterChain ==
            [maxScore |->
                Max(Max(Max(symbolScore * 10, nameScore * 8), addressScore * 9),
                    chainScore * 6),
             matchedFields |->
                (IF symbolScore > 0 THEN <<"symbol">> ELSE <<>>)
                \o (IF nameScore > 0 THEN <<"name">> ELSE <<>>)
                \o (IF addressScore > 0 THEN <<"address">> ELSE <<>>)
                \o (IF chainScore > 0 THEN <<"chainName">> ELSE <<>>)]
        afterTags == TagLoop(token.tags, queryLower, enableFuzzy, afterChain)
    IN  [maxScore |-> afterTags.maxScore,
         matchedFields |-> afterTags.matchedFields,
         exactMatch |->
            \/ symbolScore > 0 /\ toLowerCase(token.symbol) = queryLower
            \/ nameScore > 0 /\ toLowerCase(token.name) = queryLower
            \/ addressScore > 0 /\ toLowerCase(token.address) = queryLower]

\* Mutant: every token is pushed, whatever its score.
KeepResult_always(scored, threshold) == TRUE

\* maxScore >= threshold
KeepResult(scored, threshold) == scored.maxScore >= threshold

\* The results array before it is sorted.
RECURSIVE ScoreAll(_, _, _, _)
ScoreAll(tokens, queryLower, enableFuzzy, threshold) ==
    IF Len(tokens) = 0 THEN <<>>
    ELSE LET scored == ScoreToken(Head(tokens), queryLower, enableFuzzy)
             rest == ScoreAll(Tail(tokens), queryLower, enableFuzzy, threshold)
         IN  IF KeepResult(scored, threshold)
             THEN <<[token |-> Head(tokens),
                     score |-> Min(scored.maxScore, ScoreOne),
                     matchedFields |-> scored.matchedFields,
                     exactMatch |-> scored.exactMatch]>> \o rest
             ELSE rest

\* Mutant: the comparator looks at the score only.
CompareResults_scoreOnly(a, b) == b.score - a.score

\* The comparator of the sort: negative when a goes first.
CompareResults(a, b) ==
    IF a.exactMatch /\ ~b.exactMatch THEN -1
    ELSE IF ~a.exactMatch /\ b.exactMatch THEN 1
    ELSE b.score - a.score

\* x put into a sorted list behind every element that does not have to come
\* after it.
RECURSIVE InsertSorted(_, _)
InsertSorted(x, sorted) ==
    IF Len(sorted) = 0 THEN <<x>>
    ELSE IF CompareResults(Head(sorted), x) > 0
    THEN <<x>> \o sorted
    ELSE <<Head(sorted)>> \o InsertSorted(x, Tail(sorted))

\* Array.prototype.sort with the comparator (a stable sort).
RECURSIVE SortResults(_)
SortResults(list) ==
    IF Len(list) = 0 THEN <<>>
    ELSE InsertSorted(list[Len(list)], SortResults(SubSeq(list, 1, Len(list) - 1)))

\* Mutant: the list is not cut.
Slice_whole(list, n) == list

\* list.slice(0, n), n >= 0
Slice(list, n) == SubSeq(list, 1, Min(Len(list), n))

\* Mutant: the pass-through results carry the top score.
BlankResults_top(tokens) ==
    [i \in 1..Len(tokens) |->
        [token |-> tokens[i], score |-> ScoreOne, matchedFields |-> <<>>,
         exactMatch |-> FALSE]]

\* The return for a blank query: every token, score 0.5.
BlankResults(tokens) ==
    [i \in 1..Len(tokens) |->
        [token |-> tokens[i], score |-> ScoreOne \div 2, matchedFields |-> <<>>,
         exactMatch |-> FALSE]]

\* searchTokens(tokens, query, options)
searchTokens(tokens, query, options) ==
    IF IsBlank(query)
    THEN BlankResults(tokens)
    ELSE Slice(SortResults(ScoreAll(tokens, toLowerCase(query), options.enableFuzzy,
                                    options.threshold)),
               options.maxResults)

\* Tokens of the search model: two tokens of the same symbol (in different
\* case), fields that equal, start with, contain or only fuzzily match the
\* queries, a chain name and a tag that equal a query.
SearchTokenPool ==
    { [symbol |-> <<"A", "B">>, name |-> <<"a", "b", "c">>, address |-> <<"0", "a">>,
       chainName |-> <<"e">>, tags |-> <<>>],
      [symbol |-> <<"a", "b">>, name |-> <<"b">>, address |-> <<"0", "b">>,
       chainName |-> <<>>, tags |-> << <<"e">> >>],
      [symbol |-> <<"a", "b", "c">>, name |-> <<"a", "b">>, address |-> <<"0", "c">>,
       chainName |-> <<>>, tags |-> <<>>],
      [symbol |-> <<"c">>, name |-> <<"c", "a", "b">>, address |-> <<"0", "A">>,
       chainName |-> <<>>, tags |-> << <<"b", "e">>, <<"c">> >>],
      [symbol |-> <<"b", "a">>, name |-> <<"B", "a">>, address |-> <<"0", "d">>,
       chainName |-> <<"b">>, tags |-> <<>>] }

SearchQueries ==
    { <<>>, <<" ">>, <<"a", "b">>, <<"A", "B">>, <<"a", "c">>, <<"e">>, <<"b">>,
      <<"0", "a">> }

\* options: the defaults are threshold 0.1 (3000) and maxResults 50
DefaultThreshold == 3000
DefaultMaxResults == 50

SearchOptions ==
    [enableFuzzy : BOOLEAN,
     threshold : {0, DefaultThreshold, 24000},
     maxResults : {1, 2, DefaultMaxResults}]

TokenLists(pool) == UNION {[1..n -> pool] : n \in 0..MaxTokens}

\* The hooks of the mint flow, unused.
MintUnused ==
    /\ account = TRUE
    /\ enable5792 = TRUE
    /\ SendIdle
    /\ tokenA = NoToken
    /\ tokenB = NoToken
    /\ amountA = ""
    /\ amountB = ""
    /\ owner = FALSE
    /\ balances = <<>>
    /\ balancesLoading = FALSE
    /\ status = "idle"
    /\ error = NoError
    /\ pipes = [p \in 1..MaxExecutes |-> EmptyPipe]
    /\ walletReq = <<>>
    /\ callsId = NoId
    /\ callsStatus = NoStatus
    /\ nextId = 1
    /\ atomicSupported = FALSE

InitSearch ==
    /\ MintUnused
    /\ SelectorIdle
    /\ AdapterIdle
    /\ StatusIdle
    /\ searchArgs \in [tokens : TokenLists(SearchTokenPool), query : SearchQueries,
                       options : SearchOptions]
    /\ searchOut = <<>>
    /\ filterArgs = <<>>
    /\ filterOut = <<>>
    /\ searchHistory = <<>>
    /\ recentlySelected = <<>>
    /\ now = 0
    /\ lastAdd = NoAdd

\* The call searchTokens(tokens, query, options) returns.
SearchTokensCall ==
    /\ searchOut = <<>>
    /\ searchOut' = <<searchTokens(searchArgs.tokens, searchArgs.query, searchArgs.options)>>
    /\ UNCHANGED <<mintVars, sendVars, compVars, searchArgs, filterArgs, filterOut, searchHistory,
                   recentlySelected, now, lastAdd>>

NextSearch == SearchTokensCall

SpecSearch == InitSearch /\ [][NextSearch]_vars

\* The result list of the call, once it has returned.
SearchReturned == searchOut # <<>>
SearchResults == searchOut[1]

\* ------------------------------------------------------------------------
\* Properties of searchTokens

\* Two strings are equal up to the case of their letters.
EqualIgnoringCase(a, b) ==
    /\ Len(a) = Len(b)
    /\ \A i \in 1..Len(a) :
          \/ a[i] = b[i]
          \/ {a[i], b[i]} \in {{"a", "A"}, {"b", "B"}}

\* Token i of the input has the query as its symbol.
SymbolIsQuery(i) == EqualIgnoringCase(searchArgs.tokens[i].symbol, searchArgs.query)

DefaultOptions ==
    /\ searchArgs.options.threshold = DefaultThreshold
    /\ searchArgs.options.maxResults = DefaultMaxResults

\* C13 as stated (default threshold and maxResults): a token whose symbol is
\* the query is returned with exactMatch true as the first result.
C13_ExactSymbolIsFirst ==
    (SearchReturned /\ DefaultOptions)
    => \A i \in 1..Len(searchArgs.tokens) :
          SymbolIsQuery(i)
          => /\ Len(SearchResults) > 0
             /\ SearchResults[1].token = searchArgs.tokens[i]
             /\ SearchResults[1].exactMatch

\* C13 (amended): a token whose symbol is the query comes right behind the
\* earlier tokens of the input whose symbol is the query too, with exactMatch
\* true and score 1, unless maxResults cuts it off; so it is first when it is
\* the first token of the input with that symbol.
C13_ExactSymbolAheadOfOthers ==
    SearchReturned
    => \A i \in 1..Len(searchArgs.tokens) :
          SymbolIsQuery(i)
          => LET k == Cardinality({j \in 1..(i - 1) : SymbolIsQuery(j)})
             IN  k < searchArgs.options.maxResults
                 => /\ Len(SearchResults) > k
                    /\ SearchResults[k + 1].token = searchArgs.tokens[i]
                    /\ SearchResults[k + 1].exactMatch
                    /\ SearchResults[k + 1].score = ScoreOne
                    /\ \A m \in 1..k :
                          EqualIgnoringCase(SearchResults[m].token.symbol, searchArgs.query)

\* The symbol match is the last token of the input, behind a token that
\* matches by name and one that matches by prefix, and is returned first.
C13_Witness ==
    /\ SearchReturned
    /\ Len(searchArgs.tokens) = 3
    /\ ~SymbolIsQuery(1) /\ ~SymbolIsQuery(2) /\ SymbolIsQuery(3)
    /\ Len(SearchResults) = 3
    /\ SearchResults[1].token = searchArgs.tokens[3]
    /\ SearchResults[2].exactMatch

\* C14 as stated: for every query, blank ones included, and all options,
\* every result has threshold <= score <= 1.
C14_ScoreWithinThresholdAndOne ==
    SearchReturned
    => \A i \in 1..Len(SearchResults) :
          /\ searchArgs.options.threshold <= SearchResults[i].score
          /\ SearchResults[i].score <= ScoreOne

\* C14 (amended): for every query that is not blank and all options, every
\* result has threshold <= score <= 1; for a blank query every score is 0.5,
\* whatever the threshold.
C14_ScoreWithinThresholdUnlessBlank ==
    SearchReturned
    => \A i \in 1..Len(SearchResults) :
          IF IsBlank(searchArgs.query)
          THEN 2 * SearchResults[i].score = ScoreOne
          ELSE /\ searchArgs.options.threshold <= SearchResults[i].score
               /\ SearchResults[i].score <= ScoreOne

\* A threshold of 0.8 keeps one token of three.
C14_Witness ==
    /\ SearchReturned
    /\ ~IsBlank(searchArgs.query)
    /\ searchArgs.options.threshold = 24000
    /\ searchArgs.options.maxResults = DefaultMaxResults
    /\ Len(searchArgs.tokens) = 3
    /\ Len(SearchResults) = 1

\* C15: every exactMatch result precedes every other result, and within the
\* exact and the non-exact results the scores do not increase.
C15_SortedByExactThenScore ==
    SearchReturned
    => \A i, j \in 1..Len(SearchResults) :
          i < j
          => /\ SearchResults[j].exactMatch => SearchResults[i].exactMatch
             /\ SearchResults[i].exactMatch = SearchResults[j].exactMatch
                   => SearchResults[i].score >= SearchResults[j].score

\* An exact match is placed before a result of higher score that is not exact.
C15_Witness ==
    /\ SearchReturned
    /\ Len(SearchResults) >= 2
    /\ SearchResults[1].exactMatch /\ ~SearchResults[2].exactMatch
    /\ SearchResults[2].score > SearchResults[1].score

\* Some searched field of the token equals the query up to case.
SomeFieldIsQuery(token) ==
    \/ EqualIgnoringCase(token.symbol, searchArgs.query)
    \/ EqualIgnoringCase(token.name, searchArgs.query)
    \/ EqualIgnoringCase(token.address, searchArgs.query)
    \/ EqualIgnoringCase(token.chainName, searchArgs.query)
    \/ \E t \in 1..Len(token.tags) : EqualIgnoringCase(token.tags[t], searchArgs.query)

\* C16 as stated: a result whose token has some searched field (symbol, name,
\* address, chainName or a tag) equal to the query has exactMatch true.
C16_ExactMatchForAnyField ==
    (SearchReturned /\ ~IsBlank(searchArgs.query))
    => \A i \in 1..Len(SearchResults) :
          SomeFieldIsQuery(SearchResults[i].token) => SearchResults[i].exactMatch

\* C18: for a blank query the results are the input tokens, in input order,
\* each with score 0.5, exactMatch false and no matched field.
C18_BlankQueryPassesThrough ==
    (SearchReturned /\ IsBlank(searchArgs.query))
    => /\ Len(SearchResults) = Len(searchArgs.tokens)
       /\ \A i \in 1..Len(SearchResults) :
             /\ SearchResults[i].token = searchArgs.tokens[i]
             /\ 2 * SearchResults[i].score = ScoreOne
             /\ ~SearchResults[i].exactMatch
             /\ SearchResults[i].matchedFields = <<>>

\* A whitespace-only query on three tokens, with a threshold above 0.5 and
\* maxResults 1.
C18_Witness ==
    /\ SearchReturned
    /\ searchArgs.query = <<" ">>
    /\ Len(searchArgs.tokens) = 3
    /\ searchArgs.tokens[1] # searchArgs.tokens[2]
    /\ searchArgs.options.maxResults = 1
    /\ searchArgs.options.threshold = 24000
    /\ Len(SearchResults) = 3

\* C19 as stated: for every query the result list has at most maxResults
\* entries.
C19_AtMostMaxResults ==
    SearchReturned => Len(SearchResults) <= searchArgs.options.maxResults

\* C19 (amended): for every query that is not blank the result list has at
\* most maxResults entries; a blank query returns every input token.
C19_AtMostMaxResultsUnlessBlank ==
    SearchReturned
    => IF IsBlank(searchArgs.query)
       THEN Len(SearchResults) = Len(searchArgs.tokens)
       ELSE Len(SearchResults) <= searchArgs.options.maxResults

\* Three tokens pass the threshold and two are returned.
C19_Witness ==
    /\ SearchReturned
    /\ ~IsBlank(searchArgs.query)
    /\ searchArgs.options.threshold = 0
    /\ searchArgs.options.maxResults = 2
    /\ Len(searchArgs.tokens) = 3
    /\ Len(SearchResults) = 2

\* ------------------------------------------------------------------------
\* EnhancedSearchEngine.applyAdvancedFilters
\* An optional field is <<>> when it is absent (or null) and <<v>> when set.

IsSet(opt) == opt # <<>>

\* Array.prototype.includes
InList(x, list) == \E i \in 1..Len(list) : list[i] = x

\* Price range filter
PriceRangeFilter(list, filters) ==
    IF IsSet(filters.priceMin) \/ IsSet(filters.priceMax)
    THEN SelectSeq(list, LAMBDA token :
            ~(/\ IsSet(token.priceUsd)
              /\ \/ IsSet(filters.priceMin) /\ token.priceUsd[1] < filters.priceMin[1]
                 \/ IsSet(filters.priceMax) /\ token.priceUsd[1] > filters.priceMax[1]))
    ELSE list

\* Balance range filter
BalanceRangeFilter(list, filters) ==
    IF IsSet(filters.balanceMin) \/ IsSet(filters.balanceMax)
    THEN SelectSeq(list, LAMBDA token :
            ~(/\ IsSet(token.valueUsd)
              /\ \/ IsSet(filters.balanceMin) /\ token.valueUsd[1] < filters.balanceMin[1]
                 \/ IsSet(filters.balanceMax) /\ token.valueUsd[1] > filters.balanceMax[1]))
    ELSE list

\* Verified only filter
VerifiedOnlyFilter(list, filters) ==
    IF filters.verifiedOnly
    THEN SelectSeq(list, LAMBDA token : InList("verified", token.tags))
    ELSE list

\* Native only filter
NativeOnlyFilter(list, filters) ==
    IF filters.nativeOnly
    THEN SelectSeq(list, LAMBDA token : token.isNative)
    ELSE list

\* Mutant: the step drops the head of the list instead of testing the tokens.
HasBalanceFilter_dropHead(list, filters) ==
    IF filters.hasBalance /\ Len(list) > 0 THEN Tail(list) ELSE list

\* Has balance filter
HasBalanceFilter(list, filters) ==
    IF filters.hasBalance
    THEN SelectSeq(list, LAMBDA token :
            IsSet(token.amount) /\ ParseFloatPositive(token.amount[1]))
    ELSE list

\* Exclude low liquidity filter
LowLiquidityFilter(list, filters) ==
    IF filters.excludeLowLiquidity
    THEN SelectSeq(list, LAMBDA token :
            IF IsSet(token.lowLiquidity) THEN ~token.lowLiquidity[1] ELSE TRUE)
    ELSE list

\* Chain filters
ChainFilter(list, filters) ==
    IF Len(filters.chains) > 0 \/ Len(filters.chainIds) > 0
    THEN SelectSeq(list, LAMBDA token :
            InList(token.chainId, filters.chains \o filters.chainIds))
    ELSE list

\* Category filters (the category values are lower-case already)
CategoryFilter(list, filters) ==
    IF Len(filters.categories) > 0
    THEN SelectSeq(list, LAMBDA token :
            \E c \in 1..Len(filters.categories) : InList(filters.categories[c], token.tags))
    ELSE list

\* applyAdvancedFilters(tokens, filters)
applyAdvancedFilters(tokens, filters) ==
    CategoryFilter(
      ChainFilter(
        LowLiquidityFilter(
          HasBalanceFilter(
            NativeOnlyFilter(
              VerifiedOnlyFilter(
                BalanceRangeFilter(
                  PriceRangeFilter(tokens, filters),
                  filters),
                filters),
              filters),
            filters),
          filters),
        filters),
      filters)

\* Tokens of the filter model: with and without the balance fields.
FilterTokenPool ==
    { [priceUsd |-> <<1>>, valueUsd |-> <<1>>, tags |-> <<"verified", "stablecoin">>,
       isNative |-> FALSE, amount |-> <<"2">>, lowLiquidity |-> <<FALSE>>, chainId |-> "1"],
      [priceUsd |-> <<5>>, valueUsd |-> <<5>>, tags |-> <<>>,
       isNative |-> TRUE, amount |-> <<"">>, lowLiquidity |-> <<TRUE>>, chainId |-> "137"],
      [priceUsd |-> <<>>, valueUsd |-> <<>>, tags |-> <<"defi">>,
       isNative |-> FALSE, amount |-> <<>>, lowLiquidity |-> <<>>, chainId |-> "1"],
      [priceUsd |-> <<3>>, valueUsd |-> <<0>>, tags |-> <<"verified">>,
       isNative |-> TRUE, amount |-> <<"2">>, lowLiquidity |-> <<FALSE>>, chainId |-> "137"] }

\* The filter object with every field undefined.
NoFilters ==
    [priceMin |-> <<>>, priceMax |-> <<>>, balanceMin |-> <<>>, balanceMax |-> <<>>,
     verifiedOnly |-> FALSE, nativeOnly |-> FALSE, hasBalance |-> FALSE,
     excludeLowLiquidity |-> FALSE, chains |-> <<>>, chainIds |-> <<>>,
     categories |-> <<>>]

FilterChoices ==
    { NoFilters,
      [NoFilters EXCEPT !.priceMin = <<2>>],
      [NoFilters EXCEPT !.priceMax = <<3>>],
      [NoFilters EXCEPT !.priceMin = <<2>>, !.priceMax = <<3>>],
      [NoFilters EXCEPT !.balanceMin = <<1>>],
      [NoFilters EXCEPT !.balanceMax = <<1>>],
      [NoFilters EXCEPT !.verifiedOnly = TRUE],
      [NoFilters EXCEPT !.nativeOnly = TRUE],
      [NoFilters EXCEPT !.hasBalance = TRUE],
      [NoFilters EXCEPT !.excludeLowLiquidity = TRUE],
      [NoFilters EXCEPT !.chains = <<"1">>],
      [NoFilters EXCEPT !.chainIds = <<"137">>],
      [NoFilters EXCEPT !.chains = <<"1">>, !.chainIds = <<"137">>],
      [NoFilters EXCEPT !.categories = <<"stablecoin", "defi">>],
      [NoFilters EXCEPT !.verifiedOnly = TRUE, !.hasBalance = TRUE, !.priceMax = <<3>>],
      [NoFilters EXCEPT !.nativeOnly = TRUE, !.excludeLowLiquidity = TRUE,
                        !.balanceMin = <<1>>, !.chainIds = <<"137">>] }

InitFilter ==
    /\ MintUnused
    /\ SelectorIdle
    /\ AdapterIdle
    /\ StatusIdle
    /\ searchArgs = <<>>
    /\ searchOut = <<>>
    /\ filterArgs \in [tokens : TokenLists(FilterTokenPool), filters : FilterChoices]
    /\ filterOut = <<>>
    /\ searchHistory = <<>>
    /\ recentlySelected = <<>>
    /\ now = 0
    /\ lastAdd = NoAdd

\* applyAdvancedFilters(L, F) returns.
ApplyFiltersCall ==
    /\ filterOut = <<>>
    /\ filterOut' = <<applyAdvancedFilters(filterArgs.tokens, filterArgs.filters)>>
    /\ UNCHANGED <<mintVars, sendVars, compVars, searchArgs, searchOut, filterArgs, searchHistory,
                   recentlySelected, now, lastAdd>>

\* applyAdvancedFilters is called on its own result with the same filters.
ApplyFiltersAgain ==
    /\ Len(filterOut) = 1
    /\ filterOut' = Append(filterOut, applyAdvancedFilters(filterOut[1], filterArgs.filters))
    /\ UNCHANGED <<mintVars, sendVars, compVars, searchArgs, searchOut, filterArgs, searchHistory,
                   recentlySelected, now, lastAdd>>

NextFilter == ApplyFiltersCall \/ ApplyFiltersAgain

SpecFilter == InitFilter /\ [][NextFilter]_vars

\* C17: applying the filters F to applyAdvancedFilters(L, F) gives
\* applyAdvancedFilters(L, F) again.
C17_FiltersIdempotent ==
    Len(filterOut) = 2 => filterOut[2] = filterOut[1]

\* A filter object with several fields set removed some tokens and kept some.
C17_Witness ==
    /\ Len(filterOut) = 2
    /\ filterArgs.filters.verifiedOnly /\ filterArgs.filters.hasBalance
    /\ Len(filterArgs.tokens) = 3
    /\ Len(filterOut[1]) \in {1, 2}

\* ------------------------------------------------------------------------
\* EnhancedSearchEngine: search history and recently selected tokens
\* (localStorage). Date.now() does not go back, and two calls made within one
\* millisecond read the same value.

HistoryQueries == {"q1", "q2", "q3"}

\* Tokens handed to addToRecentlySelected: the same token in two spellings
\* of its address, the same address on another chain, another address.
RecentTokenPool ==
    { [chainId |-> "1", address |-> <<"0", "a">>],
      [chainId |-> "1", address |-> <<"0", "A">>],
      [chainId |-> "137", address |-> <<"0", "a">>],
      [chainId |-> "1", address |-> <<"0", "b">>] }

\* history.find((item) => item.query === query): its index, 0 when not found
RECURSIVE FindQuery(_, _, _)
FindQuery(history, query, i) ==
    IF i > Len(history) THEN 0
    ELSE IF history[i].query = query THEN i
    ELSE FindQuery(history, query, i + 1)

\* item put into a list sorted by descending timestamp, behind the items
\* that are at least as recent.
RECURSIVE InsertByTimestamp(_, _)
InsertByTimestamp(item, sorted) ==
    IF Len(sorted) = 0 THEN <<item>>
    ELSE IF item.timestamp - Head(sorted).timestamp > 0
    THEN <<item>> \o sorted
    ELSE <<Head(sorted)>> \o InsertByTimestamp(item, Tail(sorted))

\* history.sort((a, b) => b.timestamp - a.timestamp), a stable sort
RECURSIVE SortByTimestamp(_)
SortByTimestamp(history) ==
    IF Len(history) = 0 THEN <<>>
    ELSE InsertByTimestamp(history[Len(history)],
                           SortByTimestamp(SubSeq(history, 1, Len(history) - 1)))

\* The list addToSearchHistory(query) writes, Date.now() being t.
addToSearchHistory(history, query, t) ==
    LET found == FindQuery(history, query, 1)
        updated ==
            IF found > 0
            THEN [history EXCEPT ![found] =
                    [query |-> query, timestamp |-> t, count |-> history[found].count + 1]]
            ELSE <<[query |-> query, timestamp |-> t, count |-> 1]>> \o history
    IN  Slice(SortByTimestamp(updated), MAX_HISTORY_ITEMS)

\* `${token.chainId}-${token.address}`
RawTokenId(token) == <<token.chainId, token.address>>

\* TokenUtils.getUniqueId
getUniqueId(token) == <<token.chainId, toLowerCase(token.address)>>

\* The list addToRecentlySelected(token) writes.
addToRecentlySelected(recent, token) ==
    LET filtered == SelectSeq(recent, LAMBDA t : RawTokenId(t) # RawTokenId(token))
    IN  Slice(<<token>> \o filtered, MAX_RECENTLY_SELECTED)

\* x as the latest of the uses in order
MoveToFront(order, x) == <<x>> \o SelectSeq(order, LAMBDA y : y # x)

InitHistory ==
    /\ MintUnused
    /\ SelectorIdle
    /\ AdapterIdle
    /\ StatusIdle
    /\ searchArgs = <<>>
    /\ searchOut = <<>>
    /\ filterArgs = <<>>
    /\ filterOut = <<>>
    /\ searchHistory = <<>>
    /\ recentlySelected = <<>>
    /\ now = 0
    /\ lastAdd = NoAdd

\* addToSearchHistory(query) is called at time t; localStorage.setItem
\* stores the list, or throws and the error is ignored.
AddToSearchHistoryCall(query, t, stored) ==
    /\ lastAdd.n < MaxAdds
    /\ t \in {now, now + 1}
    /\ now' = t
    /\ searchHistory' = IF stored THEN addToSearchHistory(searchHistory, query, t)
                        ELSE searchHistory
    /\ lastAdd' = [op |-> "history", query |-> query, token |-> <<>>, stored |-> stored,
                   n |-> lastAdd.n + 1,
                   usedQueries |-> IF stored THEN MoveToFront(lastAdd.usedQueries, query)
                                   ELSE lastAdd.usedQueries,
                   usedIds |-> lastAdd.usedIds]
    /\ UNCHANGED <<mintVars, sendVars, compVars, searchArgs, searchOut, filterArgs, filterOut,
                   recentlySelected>>

\* addToRecentlySelected(token) is called.
AddToRecentlySelectedCall(token, stored) ==
    /\ lastAdd.n < MaxAdds
    /\ recentlySelected' = IF stored THEN addToRecentlySelected(recentlySelected, token)
                           ELSE recentlySelected
    /\ lastAdd' = [op |-> "recent", query |-> "-", token |-> <<token>>, stored |-> stored,
                   n |-> lastAdd.n + 1,
                   usedQueries |-> lastAdd.usedQueries,
                   usedIds |-> IF stored THEN MoveToFront(lastAdd.usedIds, getUniqueId(token))
                               ELSE lastAdd.usedIds]
    /\ UNCHANGED <<mintVars, sendVars, compVars, searchArgs, searchOut, filterArgs, filterOut,
                   searchHistory, now>>

NextHistory ==
    \/ \E query \in HistoryQueries, t \in 0..MaxAdds, stored \in BOOLEAN :
          AddToSearchHistoryCall(query, t, stored)
    \/ \E token \in RecentTokenPool, stored \in BOOLEAN :
          AddToRecentlySelectedCall(token, stored)

SpecHistory == InitHistory /\ [][NextHistory]_vars

\* The number of entries of the stored history with the query q.
Occurrences(q) == Cardinality({i \in 1..Len(searchHistory) : searchHistory[i].query = q})

\* C20 as stated: right after an addToSearchHistory(q) that stored its list,
\* q is the first entry and occurs once; right after an
\* addToRecentlySelected(t) that stored its list, t is the first entry and no
\* other entry has the identity (chainId, lower-cased address) of t.
C20_MoveToFront ==
    /\ (lastAdd.op = "history" /\ lastAdd.stored)
          => /\ Len(searchHistory) > 0
             /\ searchHistory[1].query = lastAdd.query
             /\ Occurrences(lastAdd.query) = 1
    /\ (lastAdd.op = "recent" /\ lastAdd.stored)
          => /\ Len(recentlySelected) > 0
             /\ recentlySelected[1] = lastAdd.token[1]
             /\ \A i \in 2..Len(recentlySelected) :
                   getUniqueId(recentlySelected[i]) # getUniqueId(lastAdd.token[1])

\* ------------------------------------------------------------------------
\* C21: the stored query history has at most MAX_HISTORY_ITEMS entries and
\* the stored recently-selected list at most MAX_RECENTLY_SELECTED, and what
\* overflow drops is least recently used: a query (a token identity) that is
\* stored was used no earlier than any that is not stored any more.

StoredQueries == {searchHistory[i].query : i \in 1..Len(searchHistory)}

StoredIds == {getUniqueId(recentlySelected[i]) : i \in 1..Len(recentlySelected)}

\* the members of kept are the latest of the uses in order
KeepsLatest(order, kept) ==
    \A i, j \in 1..Len(order) : (i < j /\ order[j] \in kept) => order[i] \in kept

C21_SizesBounded ==
    /\ Len(searchHistory) <= MAX_HISTORY_ITEMS
    /\ Len(recentlySelected) <= MAX_RECENTLY_SELECTED

C21_RecentDropsLeastRecentlyUsed == KeepsLatest(lastAdd.usedIds, StoredIds)

C21_HistoryDropsLeastRecentlyUsed == KeepsLatest(lastAdd.usedQueries, StoredQueries)

C21_BoundedLeastRecentlyUsed ==
    /\ C21_SizesBounded
    /\ C21_RecentDropsLeastRecentlyUsed
    /\ C21_HistoryDropsLeastRecentlyUsed

\* ------------------------------------------------------------------------
\* TokenSelectorV2: allTokens and filteredTokens (useMemo)

\* TokenUtils.areEqual
areEqual(token1, token2) ==
    /\ toLowerCase(token1.address) = toLowerCase(token2.address)
    /\ token1.chainId = token2.chainId

\* The identities of the items of a list, in order.
ItemIds(items) == [i \in 1..Len(items) |-> getUniqueId(items[i].token)]

\* Mutant: the id is always set as a new key.
MapSet_append(entries, id, item) == Append(entries, [id |-> id, item |-> item])

\* Map.prototype.set: the value of an existing key is replaced where the key
\* stands in the insertion order, a new key goes to the end.
MapSet(entries, id, item) ==
    IF \E i \in 1..Len(entries) : entries[i].id = id
    THEN [i \in 1..Len(entries) |->
            IF entries[i].id = id THEN [id |-> id, item |-> item] ELSE entries[i]]
    ELSE Append(entries, [id |-> id, item |-> item])

\* balances.forEach: every balance token is set
RECURSIVE AddBalanceTokens(_, _)
AddBalanceTokens(entries, list) ==
    IF Len(list) = 0 THEN entries
    ELSE AddBalanceTokens(
            MapSet(entries, getUniqueId(Head(list)),
                   [token |-> Head(list), isBalanceToken |-> TRUE]),
            Tail(list))

\* tokens.forEach: a regular token is set if its id is not present
RECURSIVE AddRegularTokens(_, _)
AddRegularTokens(entries, list) ==
    IF Len(list) = 0 THEN entries
    ELSE AddRegularTokens(
            IF \E i \in 1..Len(entries) : entries[i].id = getUniqueId(Head(list))
            THEN entries
            ELSE MapSet(entries, getUniqueId(Head(list)),
                        [token |-> Head(list), isBalanceToken |-> FALSE]),
            Tail(list))

\* A token whose address is missing makes getUniqueId throw.
Malformed(list) == \E i \in 1..Len(list) : list[i].address = <<>>

\* allTokens
AllTokens(tokenList, balanceList) ==
    IF Malformed(tokenList) \/ Malformed(balanceList)
    THEN <<>>
    ELSE LET entries == AddRegularTokens(AddBalanceTokens(<<>>, balanceList), tokenList)
         IN  [i \in 1..Len(entries) |-> entries[i].item]

\* filtered.find((item) => TokenUtils.areEqual(item.token, token))
RECURSIVE FindItem(_, _)
FindItem(items, token) ==
    IF areEqual(Head(items).token, token) THEN Head(items)
    ELSE FindItem(Tail(items), token)

\* The options the selector searches with; the others take their defaults.
SelectorSearchOptions ==
    [enableFuzzy |-> TRUE, threshold |-> DefaultThreshold, maxResults |-> DefaultMaxResults]

\* Search step of filteredTokens
SearchStep(items, searchQuery) ==
    IF IsBlank(searchQuery) THEN items
    ELSE LET searchResults ==
                searchTokens([i \in 1..Len(items) |-> items[i].token], searchQuery,
                             SelectorSearchOptions)
         IN  [i \in 1..Len(searchResults) |->
                LET originalItem == FindItem(items, searchResults[i].token)
                IN  [token |-> originalItem.token,
                     isBalanceToken |-> originalItem.isBalanceToken,
                     score |-> searchResults[i].score,
                     highlighted |-> searchResults[i].score * 10 > ScoreOne * 8]]

\* Advanced filter step of filteredTokens; filters is <<>> for the object
\* without keys.
FilterStep(items, filters) ==
    IF filters = <<>> THEN items
    ELSE LET kept == applyAdvancedFilters([i \in 1..Len(items) |-> items[i].token],
                                          filters[1])
         IN  [i \in 1..Len(kept) |-> FindItem(items, kept[i])]

\* Chain step of filteredTokens; currentChainId is "" when not given.
ChainStep(items, currentChainId) ==
    IF Truthy(currentChainId)
    THEN SelectSeq(items, LAMBDA item : item.token.chainId = currentChainId)
    ELSE items

\* filteredTokens
FilteredTokens(items, searchQuery, filters, currentChainId) ==
    ChainStep(FilterStep(SearchStep(items, searchQuery), filters), currentChainId)

\* Tokens handed to the selector as the tokens prop: a token, the same token
\* with its address in another case, its address on another chain, another
\* token, and a row without an address.
SelectorTokenPool ==
    { [symbol |-> <<"a", "b">>, name |-> <<"a", "b", "c">>, address |-> <<"0", "a">>,
       chainId |-> "1", chainName |-> <<>>, tags |-> <<>>, isNative |-> FALSE,
       priceUsd |-> <<>>, valueUsd |-> <<>>, amount |-> <<>>, lowLiquidity |-> <<>>],
      [symbol |-> <<"A", "B">>, name |-> <<"a", "b">>, address |-> <<"0", "A">>,
       chainId |-> "1", chainName |-> <<>>, tags |-> <<>>, isNative |-> FALSE,
       priceUsd |-> <<>>, valueUsd |-> <<>>, amount |-> <<>>, lowLiquidity |-> <<>>],
      [symbol |-> <<"a", "b">>, name |-> <<"a", "b">>, address |-> <<"0", "a">>,
       chainId |-> "137", chainName |-> <<>>, tags |-> <<>>, isNative |-> FALSE,
       priceUsd |-> <<>>, valueUsd |-> <<>>, amount |-> <<>>, lowLiquidity |-> <<>>],
      [symbol |-> <<"c">>, name |-> <<"c">>, address |-> <<"0", "b">>,
       chainId |-> "1", chainName |-> <<>>, tags |-> <<>>, isNative |-> TRUE,
       priceUsd |-> <<>>, valueUsd |-> <<>>, amount |-> <<>>, lowLiquidity |-> <<>>],
      [symbol |-> <<"d">>, name |-> <<"d">>, address |-> <<>>,
       chainId |-> "1", chainName |-> <<>>, tags |-> <<>>, isNative |-> FALSE,
       priceUsd |-> <<>>, valueUsd |-> <<>>, amount |-> <<>>, lowLiquidity |-> <<>>] }

\* Tokens handed to the selector as the balances prop.
SelectorBalancePool ==
    { [symbol |-> <<"a", "b">>, name |-> <<"a", "b", "c">>, address |-> <<"0", "A">>,
       chainId |-> "1", chainName |-> <<>>, tags |-> <<>>, isNative |-> FALSE,
       priceUsd |-> <<1>>, valueUsd |-> <<1>>, amount |-> <<"2">>, lowLiquidity |-> <<>>],
      [symbol |-> <<"a", "b">>, name |-> <<"a", "b", "c">>, address |-> <<"0", "a">>,
       chainId |-> "1", chainName |-> <<>>, tags |-> <<>>, isNative |-> FALSE,
       priceUsd |-> <<1>>, valueUsd |-> <<0>>, amount |-> <<"">>, lowLiquidity |-> <<>>],
      [symbol |-> <<"c">>, name |-> <<"c">>, address |-> <<"0", "b">>,
       chainId |-> "1", chainName |-> <<>>, tags |-> <<>>, isNative |-> TRUE,
       priceUsd |-> <<5>>, valueUsd |-> <<5>>, amount |-> <<"2">>, lowLiquidity |-> <<>>] }

SelectorLists(pool) == UNION {[1..n -> pool] : n \in 0..MaxSelectorTokens}

SelectorQueries == { <<>>, <<"a", "b">>, <<"0", "a">>, <<"c">> }

SelectorFilters ==
    { <<>>, <<NoFilters>>, <<[NoFilters EXCEPT !.hasBalance = TRUE]>>,
      <<[NoFilters EXCEPT !.nativeOnly = TRUE]>>,
      <<[NoFilters EXCEPT !.chains = <<"1">>]>> }

\* The lists the component renders from its props and state.
Render(props) ==
    LET allTokens == AllTokens(props.tokens, props.balances)
    IN  <<[allTokens |-> allTokens,
           filteredTokens |-> FilteredTokens(allTokens, props.searchQuery, props.filters,
                                             props.currentChainId)]>>

\* The selector before its first render: searchQuery is "", filters is {}.
InitSelector ==
    /\ MintUnused
    /\ EngineIdle
    /\ AdapterIdle
    /\ StatusIdle
    /\ selectorProps \in [tokens : SelectorLists(SelectorTokenPool),
                           balances : SelectorLists(SelectorBalancePool),
                           currentChainId : {"", "1"},
                           searchQuery : {<<>>}, filters : {<<>>}]
    /\ rendered = <<>>

SelectorUnchanged ==
    UNCHANGED <<mintVars, sendVars, searchArgs, searchOut, filterArgs, filterOut,
                searchHistory, recentlySelected, now, lastAdd, rawRecord, adapted,
                statusParams, wagmiStatus, sequentialReceipts, polled>>

\* The first render.
SelectorMount ==
    /\ rendered = <<>>
    /\ rendered' = Render(selectorProps)
    /\ UNCHANGED selectorProps
    /\ SelectorUnchanged

\* handleSearchChange(value) and the render that follows
HandleSearchChange(value) ==
    /\ rendered # <<>>
    /\ selectorProps' = [selectorProps EXCEPT !.searchQuery = value]
    /\ rendered' = Render(selectorProps')
    /\ SelectorUnchanged

\* handleFiltersChange(newFilters) and the render that follows
HandleFiltersChange(newFilters) ==
    /\ rendered # <<>>
    /\ selectorProps' = [selectorProps EXCEPT !.filters = newFilters]
    /\ rendered' = Render(selectorProps')
    /\ SelectorUnchanged

NextSelector ==
    \/ SelectorMount
    \/ \E value \in SelectorQueries : HandleSearchChange(value)
    \/ \E newFilters \in SelectorFilters : HandleFiltersChange(newFilters)

SpecSelector == InitSelector /\ [][NextSelector]_vars

NoTwoShareIdentity(items) ==
    \A i, j \in 1..Len(items) : ItemIds(items)[i] = ItemIds(items)[j] => i = j

\* C22: no two items of allTokens have the same identity (chainId,
\* lower-cased address), and no two items of filteredTokens have.
C22_RenderedIdentitiesUnique ==
    rendered # <<>> =>
        /\ NoTwoShareIdentity(rendered[1].allTokens)
        /\ NoTwoShareIdentity(rendered[1].filteredTokens)

\* The props hold one token three times (twice as a balance, in two cases of
\* the address, and once as a regular token); a search and a filter are set
\* and the token is rendered.
C22_Witness ==
    /\ rendered # <<>>
    /\ Len(selectorProps.balances) = 2
    /\ getUniqueId(selectorProps.balances[1]) = getUniqueId(selectorProps.balances[2])
    /\ selectorProps.balances[1] # selectorProps.balances[2]
    /\ Len(selectorProps.tokens) = 2
    /\ getUniqueId(selectorProps.tokens[1]) = getUniqueId(selectorProps.balances[1])
    /\ ~IsBlank(selectorProps.searchQuery)
    /\ selectorProps.filters # <<>>
    /\ Len(rendered[1].allTokens) = 2
    /\ Len(rendered[1].filteredTokens) = 1

\* ------------------------------------------------------------------------
\* TokenFormatAdapter. A chain field of a source record is a number, a string
\* or undefined; `text` is what toString() and a template string give for it.

SOLANA_CHAIN_ID == "solana"
SOLANA_AS_RELAY_NUM == "792703809"

Undefined == [type |-> "undefined", text |-> "undefined"]
Num(text) == [type |-> "number", text |-> text]
Str(text) == [type |-> "string", text |-> text]

\* Mutant: the chain id is only converted to a string.
normalizeChainId_toString(chainId) == chainId.text

\* TokenFormatAdapter.normalizeChainId
normalizeChainId(chainId) ==
    IF chainId = Num(SOLANA_AS_RELAY_NUM) \/ chainId = Str("792703809")
    THEN SOLANA_CHAIN_ID
    ELSE chainId.text

\* TokenFormatAdapter.apiTokenToToken (the fields of the identity)
apiTokenToToken(apiToken) ==
    [address |-> apiToken.address, chainId |-> normalizeChainId(apiToken.chain_id)]

\* balance.chain_id?.toString() || balance.chain || SOLANA_CHAIN_ID
BalanceChainArg(balance) ==
    IF balance.chain_id # Undefined /\ Truthy(balance.chain_id.text)
    THEN Str(balance.chain_id.text)
    ELSE IF balance.chain # Undefined /\ Truthy(balance.chain.text)
    THEN balance.chain
    ELSE Str(SOLANA_CHAIN_ID)

\* TokenFormatAdapter.balanceToToken (the fields of the identity)
balanceToToken(balance) ==
    [address |-> balance.address, chainId |-> normalizeChainId(BalanceChainArg(balance))]

\* TokenFormatAdapter.createMinimalToken (the fields of the identity)
createMinimalToken(address, chainId) ==
    [address |-> address, chainId |-> normalizeChainId(chainId)]

AdapterAddresses == { <<"0", "a">>, <<"0", "A">>, <<"n", "a", "t", "i", "v", "e">> }

ChainIdStrings == { Str("1"), Str("137"), Str("792703809"), Str(SOLANA_CHAIN_ID) }
ChainIdNumbers == { Num("1"), Num("137"), Num(SOLANA_AS_RELAY_NUM) }

\* The source records: API token rows, balance rows (chain_id and chain are
\* optional) and address / chain tuples.
RawRecords ==
    [shape : {"apiToken"}, address : AdapterAddresses,
     chain_id : ChainIdStrings \cup ChainIdNumbers, chain : {Undefined}]
    \cup [shape : {"balance"}, address : AdapterAddresses,
          chain_id : ChainIdStrings \cup {Undefined, Str("")},
          chain : {Undefined, Str("1"), Str(SOLANA_CHAIN_ID)}]
    \cup [shape : {"tuple"}, address : AdapterAddresses,
          chain_id : ChainIdStrings \cup ChainIdNumbers, chain : {Undefined}]

InitAdapter ==
    /\ MintUnused
    /\ EngineIdle
    /\ SelectorIdle
    /\ StatusIdle
    /\ rawRecord \in RawRecords
    /\ adapted = <<>>

AdapterUnchanged ==
    UNCHANGED <<mintVars, sendVars, searchArgs, searchOut, filterArgs, filterOut,
                searchHistory, recentlySelected, now, lastAdd, selectorProps, rendered,
                rawRecord, statusParams, wagmiStatus, sequentialReceipts, polled>>

ApiTokenToTokenCall ==
    /\ adapted = <<>>
    /\ rawRecord.shape = "apiToken"
    /\ adapted' = <<apiTokenToToken(rawRecord)>>
    /\ AdapterUnchanged

BalanceToTokenCall ==
    /\ adapted = <<>>
    /\ rawRecord.shape = "balance"
    /\ adapted' = <<balanceToToken(rawRecord)>>
    /\ AdapterUnchanged

CreateMinimalTokenCall ==
    /\ adapted = <<>>
    /\ rawRecord.shape = "tuple"
    /\ adapted' = <<createMinimalToken(rawRecord.address, rawRecord.chain_id)>>
    /\ AdapterUnchanged

NextAdapter == ApiTokenToTokenCall \/ BalanceToTokenCall \/ CreateMinimalTokenCall

SpecAdapter == InitAdapter /\ [][NextAdapter]_vars

\* The chain field of a source record: chain_id, or chain for a balance row
\* that has no chain_id.
RawChain(raw) ==
    IF raw.shape = "balance" /\ raw.chain_id = Undefined THEN raw.chain ELSE raw.chain_id

\* The id derived from the chain and address fields of the source record
RawId(raw) == <<RawChain(raw).text, toLowerCase(raw.address)>>

\* C23: for every source shape the unique id of the adapter's Token equals
\* the id derived from the chain and address fields of the source record.
C23_IdRoundTrip ==
    adapted # <<>> => getUniqueId(adapted[1]) = RawId(rawRecord)

\* The chain of a source record as a string: chain_id, or for a balance row
\* without a (non-empty) chain_id its chain, or without either "solana".
RawChainText(raw) ==
    IF raw.chain_id # Undefined /\ (raw.shape # "balance" \/ raw.chain_id.text # "")
    THEN raw.chain_id.text
    ELSE IF raw.chain # Undefined THEN raw.chain.text
    ELSE "solana"

\* C23, amended: the unique id of the adapter's Token is the lower-cased
\* address of the source record with the record's chain as a string, except
\* that the chain 792703809 (number or string) has become "solana".
C23_IdRoundTripUpToAlias ==
    adapted # <<>> =>
        getUniqueId(adapted[1]) =
            << IF RawChainText(rawRecord) = "792703809" THEN "solana"
               ELSE RawChainText(rawRecord),
               toLowerCase(rawRecord.address) >>

\* An API row of chain 792703809 with an upper-case address was adapted.
C23_Witness ==
    /\ adapted # <<>>
    /\ rawRecord.shape = "apiToken"
    /\ rawRecord.chain_id = Num("792703809")
    /\ rawRecord.address = <<"0", "A">>
    /\ adapted[1].chainId = "solana"

\* ------------------------------------------------------------------------
\* useMintPosition: concurrency of execute()

\* C24: at most one execute() call is in flight (started and not yet at its
\* return or in its catch block) at any time.
C24_OnePipelineInFlight == Cardinality({p \in Pipes : InFlight(p)}) <= 1

\* The network operation execute() call p is waiting for, if any.
Awaiting(p) ==
    CASE pipes[p].pc = "prepare" -> {"preparation call"}
      [] pipes[p].pc = "allowance" -> {"allowance read"}
      [] OTHER -> {}

\* C25: an execute() call has handed no calls to sendCalls while it waits
\* for an allowance read or for the preparation call, and the balance fetches
\* are not outstanding while a call waits for one of its own operations
\* (they belong to checking-balance).
C25_OneOperationOutstanding ==
    \A p \in Pipes :
        Awaiting(p) # {} => (pipes[p].calls = <<>> /\ ~balancesLoading)

\* The part of C25 about the operations execute() issues itself.
C25_OwnOperationsInSequence ==
    \A p \in Pipes : Awaiting(p) # {} => pipes[p].calls = <<>>

\* ------------------------------------------------------------------------
\* useMintPosition: the monitoring effect and the batch it reports on

\* The step is a status poll whose answer the monitoring effect turns into a
\* new status.
MonitorMovesStatus ==
    /\ callsStatus' # callsStatus
    /\ status' # status
    /\ status' \in {"success", "error"}

\* C26: the monitoring effect moves status to "success" (or "error") only
\* when the last started execute() call has submitted its batch and waits for
\* its confirmation: status is "confirming" and no call is in flight. A
\* status of the batch of an earlier attempt does not move a hook that was
\* reset or that runs a later attempt.
C26_SuccessOnlyFromOwnBatch ==
    [][MonitorMovesStatus
          => (status = "confirming" /\ \A p \in Pipes : ~InFlight(p))]_vars

\* ------------------------------------------------------------------------
\* useMintPosition: execute() and the balance query

\* A fetched balance result exists for both tokens and shows balance >=
\* required amount.
BothBalancesFetchedAndSufficient ==
    /\ ~balancesLoading
    /\ Len(balances) = 2
    /\ \A i \in 1..Len(balances) : balances[i].balance >= balances[i].requiredAmount

\* C27: an execute() call goes on to the preparing step (and invokes the
\* preparation backend) only if a fetched balance result showing balance >=
\* required amount exists for both tokens.
C27_PreparesOnlyWithFetchedBalances ==
    [][\A p \in Pipes :
          (ExecuteCalled(p) /\ pipes'[p].pc = "prepare")
          => BothBalancesFetchedAndSufficient]_vars

\* ------------------------------------------------------------------------
\* useCallsStatus wrapper (use-calls-status.ts)
\* statusParams: mode is "none" when not given; id is "" when undefined,
\* "0xhash" for a 0x-prefixed string of 66 characters, "batch-id" for any
\* other; transactionHashes is <<>> when undefined and <<n>> for a list of n
\* hashes (the i-th hash stands for itself); refetchInterval is "none",
\* "number" or "function" (a function that returns a number).
\* wagmiStatus is the status in the data of wagmi's query ("unfetched" before
\* its first fetch); sequentialReceipts[i] is the status in the data of the
\* receipt query of hash i ("unfetched" before its first fetch, "none" while
\* the receipt was not found).

NotPolled == [target |-> 0, before |-> "-", n |-> 0]

\* detectedMode (useMemo)
detectedMode ==
    IF statusParams.mode # "none" THEN statusParams.mode
    ELSE IF ~Truthy(statusParams.id) THEN "undefined"
    ELSE IF statusParams.id = "0xhash" THEN "sequential"
    ELSE "batch"

HashesGiven == statusParams.transactionHashes # <<>>

\* enabled of wagmi's query
BatchQueryEnabled == statusParams.enabled /\ Truthy(statusParams.id) /\ detectedMode = "batch"

\* The queries array of useQueries is not empty.
ReceiptQueriesExist == detectedMode = "sequential" /\ HashesGiven

\* Mutant: the interval given is handed on as it is.
BatchRefetchInterval_passThrough(dataStatus) ==
    IF statusParams.refetchInterval = "none" THEN FALSE ELSE TRUE

\* refetchInterval of wagmi's query, evaluated on data of the given status:
\* FALSE when no further fetch is scheduled.
BatchRefetchInterval(dataStatus) ==
    IF statusParams.refetchInterval = "function"
    THEN dataStatus \notin {"success", "failure"}
    ELSE statusParams.refetchInterval = "number"

\* refetchInterval of a receipt query
ReceiptRefetchInterval(dataStatus) == dataStatus \notin {"success", "reverted"}

\* The fetch of wagmi's query (the first, or a refetch after the interval)
\* answers s.
BatchStatusFetch(s) ==
    /\ statusParams # <<>>
    /\ polled.n < MaxPolls
    /\ BatchQueryEnabled
    /\ wagmiStatus = "unfetched" \/ BatchRefetchInterval(wagmiStatus)
    /\ wagmiStatus \in {"success", "failure"} => s = wagmiStatus
    /\ wagmiStatus' = s
    /\ polled' = [target |-> 0, before |-> wagmiStatus, n |-> polled.n + 1]
    /\ UNCHANGED <<mintVars, sendVars, searchArgs, searchOut, filterArgs, filterOut,
                   searchHistory, recentlySelected, now, lastAdd, selectorProps, rendered,
                   rawRecord, adapted, statusParams, sequentialReceipts>>

\* The fetch of the receipt query of hash i answers r ("none": the receipt
\* is not there yet and getTransactionReceipt throws).
ReceiptFetch(i, r) ==
    /\ statusParams # <<>>
    /\ polled.n < MaxPolls
    /\ ReceiptQueriesExist
    /\ i \in 1..Len(sequentialReceipts)
    /\ statusParams.enabled
    /\ sequentialReceipts[i] = "unfetched" \/ ReceiptRefetchInterval(sequentialReceipts[i])
    /\ sequentialReceipts' = [sequentialReceipts EXCEPT ![i] = r]
    /\ polled' = [target |-> i, before |-> sequentialReceipts[i], n |-> polled.n + 1]
    /\ UNCHANGED <<mintVars, sendVars, searchArgs, searchOut, filterArgs, filterOut,
                   searchHistory, recentlySelected, now, lastAdd, selectorProps, rendered,
                   rawRecord, adapted, statusParams, wagmiStatus>>

\* sequentialReceipts.every((r) => r.data?.status === "success")
allConfirmed == \A i \in 1..Len(sequentialReceipts) : sequentialReceipts[i] = "success"

\* Mutant: every receipt has to be reverted.
anyFailed_every == \A i \in 1..Len(sequentialReceipts) : sequentialReceipts[i] = "reverted"

\* sequentialReceipts.some((r) => r.data?.status === "reverted")
anyFailed == \E i \in 1..Len(sequentialReceipts) : sequentialReceipts[i] = "reverted"

\* sequentialReceipts.some((r) => r.isLoading || !r.data)
anyPending ==
    \E i \in 1..Len(sequentialReceipts) : sequentialReceipts[i] \in {"unfetched", "none"}

\* What the hook returns in this render (data.status is "<undefined>" when
\* data is undefined).
useCallsStatus ==
    IF detectedMode = "batch" /\ wagmiStatus # "unfetched"
    THEN [status |-> wagmiStatus,
          isLoading |-> FALSE,
          isSuccess |-> wagmiStatus = "success",
          isError |-> wagmiStatus = "failure"]
    ELSE IF detectedMode = "sequential" /\ HashesGiven
    THEN [status |-> IF anyFailed THEN "failure"
                     ELSE IF allConfirmed THEN "success" ELSE "pending",
          isLoading |-> anyPending,
          isSuccess |-> allConfirmed /\ ~anyFailed,
          isError |-> anyFailed]
    ELSE [status |-> "<undefined>", isLoading |-> FALSE, isSuccess |-> FALSE,
          isError |-> FALSE]

StatusParamChoices ==
    [mode : {"none", "batch", "sequential"},
     id : {"", "batch-id", "0xhash"},
     transactionHashes : {<<>>} \cup {<<n>> : n \in 0..MaxHashes},
     enabled : BOOLEAN,
     refetchInterval : {"none", "number", "function"}]

InitStatus ==
    /\ MintUnused
    /\ EngineIdle
    /\ SelectorIdle
    /\ AdapterIdle
    /\ statusParams \in StatusParamChoices
    /\ wagmiStatus = "unfetched"
    /\ sequentialReceipts =
          IF detectedMode = "sequential" /\ HashesGiven
          THEN [i \in 1..statusParams.transactionHashes[1] |-> "unfetched"]
          ELSE <<>>
    /\ polled = NotPolled

NextStatus ==
    \/ \E s \in {"pending", "success", "failure"} : BatchStatusFetch(s)
    \/ \E i \in 1..MaxHashes, r \in {"none", "success", "reverted"} : ReceiptFetch(i, r)

SpecStatus == InitStatus /\ [][NextStatus]_vars

\* C28: a fetch of a status query is issued only while the status known for
\* its batch (or transaction) is not terminal.
C28_NoPollAfterTerminal ==
    [][polled' # polled
          => polled'.before \notin {"success", "failure", "reverted"}]_vars

\* The same for the receipt queries of the sequential mode alone.
C28_NoReceiptPollAfterTerminal ==
    [][(polled' # polled /\ polled'.target > 0)
          => polled'.before \notin {"success", "reverted"}]_vars

\* The number of tracked transactions whose receipt has the status st.
ReceiptsWith(st) ==
    Cardinality({i \in 1..Len(sequentialReceipts) : sequentialReceipts[i] = st})

\* C30: in sequential mode the status the hook reports is "failure" when
\* some tracked receipt is reverted, "success" when none is reverted and
\* every tracked transaction has a success receipt, and "pending" otherwise;
\* isSuccess and isError go with "success" and "failure" and are never both
\* true.
C30_SequentialAggregateStatus ==
    (statusParams # <<>> /\ detectedMode = "sequential" /\ HashesGiven) =>
        /\ useCallsStatus.status =
              IF ReceiptsWith("reverted") > 0 THEN "failure"
              ELSE IF ReceiptsWith("success") = Len(sequentialReceipts) THEN "success"
              ELSE "pending"
        /\ useCallsStatus.isSuccess <=> useCallsStatus.status = "success"
        /\ useCallsStatus.isError <=> useCallsStatus.status = "failure"
        /\ ~(useCallsStatus.isSuccess /\ useCallsStatus.isError)

\* Two transactions are tracked, the first confirmed and the second
\* reverted: the hook reports "failure".
C30_Witness ==
    /\ statusParams # <<>>
    /\ detectedMode = "sequential"
    /\ sequentialReceipts = <<"success", "reverted">>
    /\ useCallsStatus.status = "failure"
    /\ useCallsStatus.isError

\* ------------------------------------------------------------------------
\* useMintPosition: no automatic retry

\* A step of execute() call p has failed: the call ended in its catch block,
\* on a failed preparation, or on the missing parameters.
Failed(p) == pipes[p].end \in {"caught", "prepFailed", "missing"}

\* The step hands calls to the wallet.
SubmitsCalls == walletReq' # <<>> /\ walletReq' # walletReq

\* The step is a fetch of the balance query that was issued after the last
\* one had resolved.
RefetchesBalances == ~balancesLoading /\ balances' # balances

====
